---------------------------- MODULE Spec2Model ----------------------------
(***************************************************************************)
(* Model of the incident-response workflow engine:                         *)
(*   - the event bus (streaming.py, IncidentEventStream),                  *)
(*   - the Loop combinator (agents/base.py, LoopAgent),                    *)
(*   - the Parallel combinator (agents/base.py, ParallelAgent) and the     *)
(*     snapshots it hands to its branches,                                 *)
(*   - the Sequential combinator (agents/base.py, SequentialAgent),        *)
(*   - the escalation loop of remediator and verifier,                     *)
(*   - the escalation level of an incident session (api.py),               *)
(*   - the pipeline orchestrator (workflow/pipeline.py).                   *)
(* Each component has its own specification (SpecBus, SpecLoop, SpecPar,   *)
(* SpecSnap, SpecSeq, SpecEsc, SpecSess, SpecRun); the variables of the    *)
(* other components stay at their idle values. SpecApi joins the session   *)
(* and the event bus for the manual resolve and takeover handlers, and     *)
(* SpecSrv the session, its pipeline task and the HTTP handlers.           *)
(***************************************************************************)
EXTENDS Integers, Sequences, FiniteSets, TLC

\* ------------------------------------------------------------------ bounds
\* Number of events emitted for the session in one behaviour.
MaxEvents == 2
\* Number of subscribers (SSE connections) of the session.
NumSubs == 2
\* max_queue_size given to IncidentEventStream(...) (the default is 256).
MaxQueueSize == 1

\* Largest max_iterations a LoopAgent is built with.
MaxM == 3
\* Largest number of sub-agents of a LoopAgent.
MaxSubAgents == 2

\* Largest number of sub-agents of a ParallelAgent.
MaxAgents == 4

\* Number of branches, and of steps (writes and reads of its context) one
\* branch takes, in the model of the snapshots of a ParallelAgent.
NumBranches == 2
MaxBranchSteps == 3

\* Largest number of sub-agents of a SequentialAgent.
MaxSeqAgents == 3

\* Largest max_iterations the escalation loop is built with
\* (settings.max_escalation_levels; the default is 3).
MaxEscM == 4
\* Largest number of severity indicators in the diagnostics of a context.
MaxIndicators == 2

\* Number of manual escalate requests sent for one incident session.
MaxRequests == 2

Subs == 1..NumSubs

\* ------------------------------------------------------------ event types
EVENT_RECEIVED == "received"
EVENT_ENRICHING == "enriching"
EVENT_ENRICHED == "enriched"
EVENT_TRIAGING == "triaging"
EVENT_TRIAGED == "triaged"
EVENT_DIAGNOSING_LOGS == "diagnosing_logs"
EVENT_DIAGNOSING_METRICS == "diagnosing_metrics"
EVENT_DIAGNOSING_CONFIG == "diagnosing_config"
EVENT_DIAGNOSTICS_COMPLETE == "diagnostics_complete"
EVENT_REMEDIATING == "remediating"
EVENT_REMEDIATION_ATTEMPTED == "remediation_attempted"
EVENT_VERIFYING == "verifying"
EVENT_VERIFICATION_RESULT == "verification_result"
EVENT_ESCALATING == "escalating"
EVENT_RESOLVED == "resolved"
EVENT_HUMAN_TAKEOVER == "human_takeover"
EVENT_ERROR == "error"

_TERMINAL_EVENTS == {EVENT_RESOLVED, EVENT_HUMAN_TAKEOVER, EVENT_ERROR}

\* The event types emit is called with in the model of the bus: one
\* non-terminal type stands for the fourteen non-terminal ones and one
\* terminal type for the three, which emit and subscribe treat alike.
EmitTypes == {EVENT_RECEIVED, EVENT_RESOLVED}

\* close() pushes None into the queues; seq 0 is no emitted event.
Sentinel == [seq |-> 0, type |-> "None"]

VARIABLES
  \* ---- event bus (one session)
  history,     \* _history[session]: the events emitted, in emission order
  registry,    \* _queues[session]: the registered subscriber queues, in order
  queue,       \* queue[s]: content of the asyncio.Queue of subscriber s
  subPc,       \* where the generator subscribe() of s is suspended
  replayIdx,   \* index of the list iterator of the replay loop of s
  yielded,     \* the events yielded to the consumer of s, in order
  joinLen,     \* number of events emitted when s called subscribe
  endCause,    \* why the sequence of s ended
  \* ---- LoopAgent.run (one invocation)
  loopPc,      \* where run is: "start", "top", "sub", "check", "done", "raised"
  loopM,       \* self.max_iterations
  loopN,       \* len(self.sub_agents)
  loopIn,      \* the context the caller passed in
  loopCtx,     \* current_context
  loopIter,    \* the loop variable `iteration` of range(max_iterations)
  loopSub,     \* index of the sub-agent that runs next
  loopSeen,    \* the loop_iteration value each sub-agent run was given
  loopChecks,  \* the completion flag found after each run of the sequence
  \* ---- ParallelAgent.run (one invocation)
  parPc,       \* where run is: "start", "gather", "returned", "raised"
  parN,        \* len(self.sub_agents); agent i is named i
  parIn,       \* the context the caller passed in
  parOut,      \* parOut[i]: how the branch of agent i ended
  parMerged,   \* the context run returns
  parInAfter,  \* the caller's context after run
  parLast,     \* the agent whose branch ended last so far (0: none yet)
  \* ---- the snapshots of the branches of one ParallelAgent.run
  snapPc,      \* "off", "start", "running"
  snapTop,     \* snapTop[i]: the value under key k1 in the dict of branch i
  snapObj,     \* content of the list the input holds under key "timeline"
  snapSteps,   \* snapSteps[i]: number of steps branch i has taken
  snapSeen,    \* snapSeen[i]: what branch i has read from its context
  \* ---- SequentialAgent.run (one invocation)
  seqPc,       \* where run is: "off", "start", "loop", "returned", "raised"
  seqN,        \* len(self.sub_agents); agent i is named i
  seqIn,       \* the context the caller passed in
  seqCur,      \* current_context
  seqIdx,      \* position of the for loop: the agent that runs next
  seqGiven,    \* seqGiven[j]: the context the j-th agent run was given
  seqOut,      \* seqOut[j]: how the j-th agent run ended
  seqResult,   \* what run handed to its caller
  \* ---- the escalation loop: LoopAgent.run over remediator and verifier
  escPc,       \* "off", "start", "top", "remediate", "verify", "check", "done"
  escM,        \* max_iterations
  escIter,     \* the loop variable `iteration` of range(max_iterations)
  escCtx,      \* current_context
  escIndicators, \* the severity indicators of the diagnostics in the context
  escActions,  \* the selections of the remediator, in order
  escChecks,   \* the runs of the verifier, in order
  \* ---- one incident session and its pipeline task (api.py)
  sessState,   \* session.state
  sessLevel,   \* session.escalation_level
  sessM,       \* settings.max_escalation_levels
  sessRequests, \* number of escalate requests handled
  pipePc,      \* the task: "off", "triage", "loop", "finished", "cancelled"
  pipeLevel,   \* escalation_level of the pipeline's context ("absent": none)
  pipeIter,    \* number of verifications of the escalation loop that failed
  \* ---- run_incident_pipeline (one invocation)
  runPc,       \* "off", "start", "triage", "diagnostics", "loop",
               \* "phase4", "returned"
  runM,        \* settings.max_escalation_levels
  runIter,     \* the loop variable `iteration` of the escalation loop
  runCtx,      \* the variable `context` of the run
  runCur,      \* current_context of the escalation loop the run awaits
  runDiag,     \* runDiag[b]: how the diagnostic branch b ended
  runLog,      \* the events emitted and the agent runs started, in order
  \* ---- the HTTP handlers of one incident session (api.py)
  apiReply     \* the request handled last and the status it was answered

busVars == <<history, registry, queue, subPc, replayIdx, yielded, joinLen,
             endCause>>

loopVars == <<loopPc, loopM, loopN, loopIn, loopCtx, loopIter, loopSub,
              loopSeen, loopChecks>>

parVars == <<parPc, parN, parIn, parOut, parMerged, parInAfter, parLast>>

snapVars == <<snapPc, snapTop, snapObj, snapSteps, snapSeen>>

seqVars == <<seqPc, seqN, seqIn, seqCur, seqIdx, seqGiven, seqOut, seqResult>>

escVars == <<escPc, escM, escIter, escCtx, escIndicators, escActions,
             escChecks>>

sessVars == <<sessState, sessLevel, sessM, sessRequests, pipePc, pipeLevel,
              pipeIter>>

runVars == <<runPc, runM, runIter, runCtx, runCur, runDiag, runLog>>

srvVars == <<apiReply>>

\* What the actions of one component leave alone.
notBus == <<loopVars, parVars, snapVars, seqVars, escVars, sessVars,
  runVars, srvVars>>
notLoop == <<busVars, parVars, snapVars, seqVars, escVars, sessVars,
  runVars, srvVars>>
notPar == <<busVars, loopVars, snapVars, seqVars, escVars, sessVars,
  runVars, srvVars>>
notSnap == <<busVars, loopVars, parVars, seqVars, escVars, sessVars,
  runVars, srvVars>>
notSeq == <<busVars, loopVars, parVars, snapVars, escVars, sessVars,
  runVars, srvVars>>
notEsc == <<busVars, loopVars, parVars, snapVars, seqVars, sessVars,
  runVars, srvVars>>
notSess == <<busVars, loopVars, parVars, snapVars, seqVars, escVars,
  runVars, srvVars>>
notRun == <<busVars, loopVars, parVars, snapVars, seqVars, escVars, sessVars,
  srvVars>>

vars == <<history, registry, queue, subPc, replayIdx, yielded, joinLen,
          endCause, loopPc, loopM, loopN, loopIn, loopCtx, loopIter, loopSub,
          loopSeen, loopChecks, parPc, parN, parIn, parOut, parMerged,
          parInAfter, parLast, snapPc, snapTop, snapObj, snapSteps,
          snapSeen, seqPc, seqN, seqIn, seqCur, seqIdx, seqGiven, seqOut,
          seqResult, escPc, escM, escIter, escCtx, escIndicators, escActions,
          escChecks, sessState, sessLevel, sessM, sessRequests, pipePc,
          pipeLevel, pipeIter, runPc, runM, runIter, runCtx, runCur,
          runDiag, runLog, apiReply>>

\* ------------------------------------------------------------- helpers
Range(f) == {f[i] : i \in DOMAIN f}

RECURSIVE RemoveFirst(_, _)
\* list.remove(x): drops the first occurrence of x.
RemoveFirst(sq, x) ==
  IF sq = <<>> THEN <<>>
  ELSE IF Head(sq) = x THEN Tail(sq)
  ELSE <<Head(sq)>> \o RemoveFirst(Tail(sq), x)

\* ------------------------------------------------- contexts (dicts)
\* A context is a function from the keys it holds to their values.
EmptyCtx == <<>>
\* context[key] = value
Put(ctx, key, value) == (key :> value) @@ ctx
\* context.setdefault(key, value)
SetDefaultOverwrites(ctx, key, value) == Put(ctx, key, value)
SetDefault(ctx, key, value) == ctx @@ (key :> value)
\* context.get(key, default)
Get(ctx, key, default) == IF key \in DOMAIN ctx THEN ctx[key] ELSE default

\* The other components at rest.
LoopIdle ==
  /\ loopPc = "off"
  /\ loopM = 0
  /\ loopN = 0
  /\ loopIn = EmptyCtx
  /\ loopCtx = EmptyCtx
  /\ loopIter = 0
  /\ loopSub = 0
  /\ loopSeen = <<>>
  /\ loopChecks = <<>>

\* A ParallelAgent context: the data keys it holds with their values, and
\* its "errors" entry: absent, or a dict given as a set of <<name, message>>
\* pairs. errorsOfInput tells that the dict is the very object the caller's
\* context holds (dict.copy() is shallow).
NoContext == [data |-> EmptyCtx, hasErrors |-> FALSE, errors |-> {},
              errorsOfInput |-> FALSE]

\* A branch that has not ended.
Pending == [kind |-> "pending", writes |-> EmptyCtx, errors |-> "keep",
            msg |-> ""]

ParIdle ==
  /\ parPc = "off"
  /\ parN = 0
  /\ parIn = NoContext
  /\ parOut = <<>>
  /\ parMerged = NoContext
  /\ parInAfter = NoContext
  /\ parLast = 0

SnapIdle ==
  /\ snapPc = "off"
  /\ snapTop = <<>>
  /\ snapObj = {}
  /\ snapSteps = <<>>
  /\ snapSeen = <<>>

\* run has handed nothing to its caller.
NoResult == [returned |-> FALSE, ctx |-> EmptyCtx]

SeqIdle ==
  /\ seqPc = "off"
  /\ seqN = 0
  /\ seqIn = EmptyCtx
  /\ seqCur = EmptyCtx
  /\ seqIdx = 0
  /\ seqGiven = <<>>
  /\ seqOut = <<>>
  /\ seqResult = NoResult

EscIdle ==
  /\ escPc = "off"
  /\ escM = 0
  /\ escIter = 0
  /\ escCtx = EmptyCtx
  /\ escIndicators = {}
  /\ escActions = <<>>
  /\ escChecks = <<>>

SessIdle ==
  /\ sessState = "none"
  /\ sessLevel = "none"
  /\ sessM = 0
  /\ sessRequests = 0
  /\ pipePc = "off"
  /\ pipeLevel = "absent"
  /\ pipeIter = 0

RunIdle ==
  /\ runPc = "off"
  /\ runM = 0
  /\ runIter = 0
  /\ runCtx = EmptyCtx
  /\ runCur = EmptyCtx
  /\ runDiag = <<>>
  /\ runLog = <<>>

\* No request has been handled.
NoReply == [request |-> "none", session_id |-> "", status |-> 0]

SrvIdle == apiReply = NoReply

\* ============================================================ EVENT BUS

\* IncidentEvent(event_type=..., ...): seq stands for the event's identity
\* (its place in the emission order).
NewEvent(t) == [seq |-> Len(history) + 1, type |-> t]

\* queue.put_nowait(item) with QueueFull caught: a full queue drops the item.
PutNowait(q, item) ==
  IF Len(q) < MaxQueueSize THEN Append(q, item) ELSE q

\* The element the replay loop's list iterator yields at position idx.
PastEventNewestFirst(hist, idx) == hist[Len(hist) + 1 - idx]
PastEvent(hist, idx) == hist[idx]

BusIdle ==
  /\ history = <<>>
  /\ registry = <<>>
  /\ queue = [s \in Subs |-> <<>>]
  /\ subPc = [s \in Subs |-> "idle"]
  /\ replayIdx = [s \in Subs |-> 0]
  /\ yielded = [s \in Subs |-> <<>>]
  /\ joinLen = [s \in Subs |-> 0]
  /\ endCause = [s \in Subs |-> "none"]

InitBus ==
  /\ BusIdle /\ LoopIdle /\ ParIdle /\ SnapIdle /\ SeqIdle /\ EscIdle
  /\ SessIdle /\ RunIdle /\ SrvIdle

\* A fan-out loop that a full queue ends: the queues registered after it
\* are not offered the event.
FanOutStopsAtFull(event) ==
  [s \in Subs |->
     IF /\ s \in Range(registry)
        /\ \A i, j \in 1..Len(registry) :
             registry[j] = s /\ i < j => Len(queue[registry[i]]) < MaxQueueSize
     THEN PutNowait(queue[s], event)
     ELSE queue[s]]

\* A fan-out that also reaches the queues that have left the registry.
FanOutToEveryQueue(event) ==
  [s \in Subs |-> PutNowait(queue[s], event)]

\* The fan-out loop of emit: the event is offered to every registered
\* queue.
FanOut(event) ==
  [s \in Subs |->
     IF s \in Range(registry) THEN PutNowait(queue[s], event) ELSE queue[s]]

\* emit(session_id, event_type): append to the history, then offer the event
\* to every registered queue.
Emit(t) ==
  /\ Len(history) < MaxEvents
  /\ history' = Append(history, NewEvent(t))
  /\ queue' = FanOut(NewEvent(t))
  /\ UNCHANGED <<registry, subPc, replayIdx, yielded, joinLen, endCause>>
  /\ UNCHANGED notBus

\* The finally clause of subscribe: remove the queue from the registry.
Deregister(reg, s) == IF s \in Range(reg) THEN RemoveFirst(reg, s) ELSE reg

\* The while loop of subscribe from `await queue.get()` on: block on an empty
\* queue, end on the sentinel, else yield the event.
LiveLoop(s) ==
  IF queue[s] = <<>>
  THEN /\ subPc' = [subPc EXCEPT ![s] = "get"]
       /\ UNCHANGED <<queue, yielded, registry, endCause>>
  ELSE /\ queue' = [queue EXCEPT ![s] = Tail(@)]
       /\ IF Head(queue[s]) = Sentinel
          THEN /\ subPc' = [subPc EXCEPT ![s] = "done"]
               /\ endCause' = [endCause EXCEPT ![s] = "sentinel"]
               /\ registry' = Deregister(registry, s)
               /\ UNCHANGED yielded
          ELSE /\ subPc' = [subPc EXCEPT ![s] = "live"]
               /\ yielded' = [yielded EXCEPT ![s] = Append(@, Head(queue[s]))]
               /\ UNCHANGED <<registry, endCause>>

\* First __anext__ of subscribe(session_id): create and register the queue,
\* then start the replay loop over the history list.
Subscribe(s) ==
  /\ subPc[s] = "idle"
  \* subscribers are interchangeable: they join in the order of their numbers
  /\ \A r \in Subs : r < s => subPc[r] # "idle"
  /\ registry' = Append(registry, s)
  /\ joinLen' = [joinLen EXCEPT ![s] = Len(history)]
  /\ IF Len(history) > 0
     THEN /\ yielded' = [yielded EXCEPT ![s] = Append(@, PastEvent(history, 1))]
          /\ replayIdx' = [replayIdx EXCEPT ![s] = 1]
          /\ subPc' = [subPc EXCEPT ![s] = "replay"]
     ELSE \* nothing to replay: the new queue is empty, queue.get() blocks
          /\ subPc' = [subPc EXCEPT ![s] = "get"]
          /\ UNCHANGED <<yielded, replayIdx>>
  /\ UNCHANGED <<history, queue, endCause>>
  /\ UNCHANGED notBus

\* __anext__ while suspended at the yield of the replay loop: the list
\* iterator looks at the list as it is now, so it also returns the events
\* appended since; when it is exhausted the while loop starts.
ReplayNext(s) ==
  /\ subPc[s] = "replay"
  /\ IF replayIdx[s] < Len(history)
     THEN /\ yielded' = [yielded EXCEPT
                           ![s] = Append(@, PastEvent(history, replayIdx[s] + 1))]
          /\ replayIdx' = [replayIdx EXCEPT ![s] = @ + 1]
          /\ UNCHANGED <<queue, subPc, registry, endCause>>
     ELSE /\ LiveLoop(s)
          /\ UNCHANGED replayIdx
  /\ UNCHANGED <<history, joinLen>>
  /\ UNCHANGED notBus

\* __anext__ while suspended at the yield of the while loop: a terminal
\* event just yielded ends the sequence, else the loop goes on.
LiveNext(s) ==
  /\ subPc[s] = "live"
  /\ IF yielded[s][Len(yielded[s])].type \in _TERMINAL_EVENTS
     THEN /\ subPc' = [subPc EXCEPT ![s] = "done"]
          /\ endCause' = [endCause EXCEPT ![s] = "terminal"]
          /\ registry' = Deregister(registry, s)
          /\ UNCHANGED <<queue, yielded>>
     ELSE LiveLoop(s)
  /\ UNCHANGED <<history, replayIdx, joinLen>>
  /\ UNCHANGED notBus

\* The pending queue.get() of a blocked subscriber completes.
Wake(s) ==
  /\ subPc[s] = "get"
  /\ queue[s] # <<>>
  /\ LiveLoop(s)
  /\ UNCHANGED <<history, replayIdx, joinLen>>
  /\ UNCHANGED notBus

\* The consumer drops the sequence (aclose, or its task is cancelled). The
\* replay loop is outside the try block: its yield has no finally clause.
Cancel(s) ==
  /\ subPc[s] \in {"replay", "get", "live"}
  /\ subPc' = [subPc EXCEPT ![s] = "done"]
  /\ endCause' = [endCause EXCEPT ![s] = "cancel"]
  /\ registry' = IF subPc[s] = "replay" THEN registry
                 ELSE Deregister(registry, s)
  /\ UNCHANGED <<history, queue, replayIdx, yielded, joinLen>>
  /\ UNCHANGED notBus

\* close(session_id): the sentinel to every registered queue, then the
\* registry of the session is dropped.
Close ==
  /\ queue' = [s \in Subs |->
                 IF s \in Range(registry) THEN PutNowait(queue[s], Sentinel)
                 ELSE queue[s]]
  /\ registry' = <<>>
  /\ UNCHANGED <<history, subPc, replayIdx, yielded, joinLen, endCause>>
  /\ UNCHANGED notBus

NextBus ==
  \/ \E t \in EmitTypes : Emit(t)
  \/ \E s \in Subs : Subscribe(s)
  \/ \E s \in Subs : ReplayNext(s)
  \/ \E s \in Subs : LiveNext(s)
  \/ \E s \in Subs : Wake(s)
  \/ \E s \in Subs : Cancel(s)
  \/ Close

SpecBus == InitBus /\ [][NextBus]_vars

\* =========================================================== LOOP AGENT

\* The keys LoopAgent.run reads and writes.
LoopKeys == {"loop_iteration", "loop_complete", "loop_exhausted"}

\* Counter values an input context may carry: 0, and one above every
\* max_iterations of the model.
InputIterations == {0, MaxM + 1}

\* The input contexts: any subset of the loop keys present, the counter a
\* number and the flags booleans.
LoopInputs ==
  { i @@ c @@ e :
      i \in {EmptyCtx} \cup {("loop_iteration" :> n) : n \in InputIterations},
      c \in {EmptyCtx} \cup {("loop_complete" :> b) : b \in BOOLEAN},
      e \in {EmptyCtx} \cup {("loop_exhausted" :> b) : b \in BOOLEAN} }

\* What one run of a sub-agent does to the completion flag of the context it
\* returns (it returns the context it was given with its own keys written),
\* or that it raises.
SubEffects == {"keep", "complete", "incomplete", "raise"}

AgentResult(ctx, effect) ==
  CASE effect = "complete" -> Put(ctx, "loop_complete", TRUE)
    [] effect = "incomplete" -> Put(ctx, "loop_complete", FALSE)
    [] OTHER -> ctx

InitLoop ==
  /\ BusIdle
  /\ ParIdle
  /\ SnapIdle
  /\ SeqIdle
  /\ EscIdle
  /\ SessIdle
  /\ RunIdle
  /\ SrvIdle
  /\ loopPc = "start"
  /\ loopM \in 1..MaxM
  /\ loopN \in 1..MaxSubAgents
  /\ loopIn \in LoopInputs
  /\ loopCtx = EmptyCtx
  /\ loopIter = 0
  /\ loopSub = 0
  /\ loopSeen = <<>>
  /\ loopChecks = <<>>

\* current_context = context.copy() and the two setdefault calls.
LoopEnter ==
  /\ loopPc = "start"
  /\ loopCtx' = SetDefault(SetDefault(loopIn, "loop_iteration", 0),
                           "loop_complete", FALSE)
  /\ loopIter' = 0
  /\ loopPc' = "top"
  /\ UNCHANGED <<loopM, loopN, loopIn, loopSub, loopSeen, loopChecks>>
  /\ UNCHANGED notLoop

\* `for iteration in range(self.max_iterations)` has a next value.
HasNextIterationOneMore(iteration, m) == iteration <= m
HasNextIteration(iteration, m) == iteration < m

\* current_context["loop_iteration"] = iteration + 1
IterationNumberOffByOne(iteration) == iteration + 2
IterationNumberStuck(iteration) == 1
IterationNumber(iteration) == iteration + 1

\* The else clause of the for loop: current_context["loop_exhausted"] = True
MarkExhaustedForgotten(ctx) == ctx
MarkExhausted(ctx) == Put(ctx, "loop_exhausted", TRUE)

\* The head of the for loop: the next iteration starts with the counter
\* written, or the range is used up, the else clause runs and run returns.
LoopTop ==
  /\ loopPc = "top"
  /\ IF HasNextIteration(loopIter, loopM)
     THEN /\ loopCtx' = Put(loopCtx, "loop_iteration", IterationNumber(loopIter))
          /\ loopSub' = 1
          /\ loopPc' = "sub"
     ELSE /\ loopCtx' = MarkExhausted(loopCtx)
          /\ loopPc' = "done"
          /\ UNCHANGED loopSub
  /\ UNCHANGED <<loopM, loopN, loopIn, loopIter, loopSeen, loopChecks>>
  /\ UNCHANGED notLoop

\* current_context = await agent.run(current_context) for the next sub-agent;
\* an exception of the sub-agent leaves run.
SubAgentRun(effect) ==
  /\ loopPc = "sub"
  /\ loopSeen' = Append(loopSeen, loopCtx["loop_iteration"])
  /\ IF effect = "raise"
     THEN /\ loopPc' = "raised"
          /\ UNCHANGED <<loopCtx, loopSub>>
     ELSE /\ loopCtx' = AgentResult(loopCtx, effect)
          /\ IF loopSub < loopN
             THEN loopSub' = loopSub + 1 /\ loopPc' = "sub"
             ELSE loopSub' = 0 /\ loopPc' = "check"
  /\ UNCHANGED <<loopM, loopN, loopIn, loopIter, loopChecks>>
  /\ UNCHANGED notLoop

\* if current_context.get("loop_complete", False): break
BreakNever(ctx) == FALSE
BreakCondition(ctx) == Get(ctx, "loop_complete", FALSE)

LoopCheck ==
  /\ loopPc = "check"
  /\ loopChecks' = Append(loopChecks, Get(loopCtx, "loop_complete", FALSE))
  /\ IF BreakCondition(loopCtx)
     THEN loopPc' = "done" /\ UNCHANGED loopIter
     ELSE loopPc' = "top" /\ loopIter' = loopIter + 1
  /\ UNCHANGED <<loopM, loopN, loopIn, loopCtx, loopSub, loopSeen>>
  /\ UNCHANGED notLoop

NextLoop ==
  \/ LoopEnter
  \/ LoopTop
  \/ \E e \in SubEffects : SubAgentRun(e)
  \/ LoopCheck

SpecLoop == InitLoop /\ [][NextLoop]_vars

\* ======================================================= PARALLEL AGENT

\* The data keys of the model: the branches write k1 and the input may
\* hold it. The input holds the value 0 under a key and agent i writes the
\* value i.
DataKeys == {"k1"}
InputKeys == {"k1"}
InputValue == 0

\* The message of the exception a branch raises.
ErrorMessages == {"boom"}

\* An "errors" dict the input may carry: empty, or with an entry left for
\* agent 1 by an earlier run.
InputErrors == { {}, {<<1, "old">>} }

\* The "errors" dict a branch writes into its own result (a nested
\* ParallelAgent does so, with the entries of its own branches).
BranchErrors == {<<0, "nested">>}

\* The input contexts: any subset of the input keys, with or without an
\* "errors" dict.
ParInputs ==
  { [data |-> d, hasErrors |-> FALSE, errors |-> {}, errorsOfInput |-> FALSE] :
      d \in UNION { [S -> {InputValue}] : S \in SUBSET InputKeys } }
  \cup
  { [data |-> d, hasErrors |-> TRUE, errors |-> e, errorsOfInput |-> TRUE] :
      d \in UNION { [S -> {InputValue}] : S \in SUBSET InputKeys },
      e \in InputErrors }

\* How the branch of agent i may end: it returns its snapshot with the keys
\* of `writes` set to i and with the errors dict kept or replaced, or it
\* raises an exception with message msg, before its first write or after
\* its last one.
Outcomes(i) ==
  [kind : {"ok"}, writes : UNION { [S -> {i}] : S \in SUBSET DataKeys },
   errors : {"keep", "fresh"}, msg : {""}]
  \cup
  [kind : {"fail"}, writes : {<<>>, [k \in DataKeys |-> i]},
   errors : {"keep"}, msg : ErrorMessages]

InitPar ==
  /\ BusIdle
  /\ LoopIdle
  /\ SnapIdle
  /\ SeqIdle
  /\ EscIdle
  /\ SessIdle
  /\ RunIdle
  /\ SrvIdle
  /\ parPc = "start"
  /\ parN \in 1..MaxAgents
  /\ parIn \in ParInputs
  /\ parOut = [i \in 1..parN |-> Pending]
  /\ parMerged = NoContext
  /\ parInAfter = parIn
  /\ parLast = 0

\* tasks = [agent.run(context.copy()) for agent in self.sub_agents] and the
\* call of asyncio.gather: every branch is started on its own copy.
ParStart ==
  /\ parPc = "start"
  /\ parPc' = "gather"
  /\ UNCHANGED <<parN, parIn, parOut, parMerged, parInAfter, parLast>>
  /\ UNCHANGED notPar

\* The branch of agent i ends, with a result or with an exception.
BranchEnd(i, o) ==
  /\ parPc = "gather"
  /\ parOut[i] = Pending
  /\ parOut' = [parOut EXCEPT ![i] = o]
  /\ parLast' = i
  /\ UNCHANGED <<parPc, parN, parIn, parMerged, parInAfter>>
  /\ UNCHANGED notPar

\* The data of the context the successful branch of agent i returns: its
\* copy of the input with its own keys written.
ResultData(input, o) == o.writes @@ input.data

\* errors dict: d[name] = message
ErrorsPut(d, name, msg) == {p \in d : p[1] # name} \cup {<<name, msg>>}

\* merged.setdefault("errors", {})[agent.name] = str(result): acc is the
\* merged context with inputErrors, the present content of the dict of the
\* caller's context.
MergeFailure(acc, i, o) ==
  LET d == ErrorsPut(IF acc.hasErrors THEN acc.errors ELSE {}, i, o.msg)
  IN [acc EXCEPT !.hasErrors = TRUE,
                 !.errors = d,
                 !.errorsOfInput = acc.hasErrors /\ acc.errorsOfInput,
                 !.inputErrors = IF acc.hasErrors /\ acc.errorsOfInput
                                 THEN d ELSE @]

\* merged.update(result): every key of the result, the errors entry among
\* them when the result has one; update raises a TypeError when the result
\* is an exception and no dict.
MergeSuccess(acc, input, o) ==
  LET withData == [acc EXCEPT !.data = ResultData(input, o) @@ @]
  IN CASE o.kind # "ok" -> [acc EXCEPT !.raised = TRUE]
       [] o.errors = "fresh" ->
            [withData EXCEPT !.hasErrors = TRUE, !.errors = BranchErrors,
                             !.errorsOfInput = FALSE]
       [] o.errors = "keep" /\ input.hasErrors ->
            [withData EXCEPT !.hasErrors = TRUE, !.errors = acc.inputErrors,
                             !.errorsOfInput = TRUE]
       [] OTHER -> withData

\* isinstance(result, Exception) decides how a result is merged.
MergeOne(acc, input, i, o) ==
  IF o.kind = "fail" THEN MergeFailure(acc, i, o)
  ELSE MergeSuccess(acc, input, o)

RECURSIVE MergeFrom(_, _, _, _, _)
\* for agent, result in zip(self.sub_agents, results): from agent i on.
MergeFrom(acc, input, outs, i, n) ==
  IF i > n \/ acc.raised THEN acc
  ELSE MergeFrom(MergeOne(acc, input, i, outs[i]), input, outs, i + 1, n)

\* The merged context before the merge loop: merged = context.copy().
MergeStart(input) ==
  [data |-> input.data, hasErrors |-> input.hasErrors,
   errors |-> input.errors, errorsOfInput |-> input.hasErrors,
   inputErrors |-> input.errors, raised |-> FALSE]

\* A merge that applies the result of the branch that ended last after the
\* results of the others.
MergeLastEndedLast(input, outs, n) ==
  LET RECURSIVE Others(_, _)
      Others(acc, i) ==
        IF i > n \/ acc.raised THEN acc
        ELSE Others(IF i = parLast THEN acc
                    ELSE MergeOne(acc, input, i, outs[i]), i + 1)
      rest == Others(MergeStart(input), 1)
  IN IF parLast \in 1..n /\ ~rest.raised
     THEN MergeOne(rest, input, parLast, outs[parLast])
     ELSE rest

\* merged = context.copy() followed by the merge loop.
Merge(input, outs, n) ==
  MergeFrom(MergeStart(input), input, outs, 1, n)

\* A gather that raises the exception of a failed branch to its caller.
GatherPropagates(outs, n) == \E i \in 1..n : outs[i].kind = "fail"

\* asyncio.gather(*tasks, return_exceptions=True) hands the exception of a
\* branch back as that branch's result and raises nothing.
GatherRaises(outs, n) == FALSE

\* A gather that returns when the first branch has failed.
GatherDoneAtFirstFailure(outs, n) ==
  \/ \A i \in 1..n : outs[i] # Pending
  \/ \E i \in 1..n : outs[i].kind = "fail"

\* await asyncio.gather(*tasks, return_exceptions=True) resumes run when
\* every task has ended, with a result or with an exception.
GatherDone(outs, n) == \A i \in 1..n : outs[i] # Pending

\* gather returns when every branch has ended; the merge loop has no await
\* and run returns the merged context, unless gather or the loop raised.
ParMerge ==
  /\ parPc = "gather"
  /\ GatherDone(parOut, parN)
  /\ LET r == Merge(parIn, parOut, parN)
     IN IF GatherRaises(parOut, parN)
        THEN /\ parPc' = "raised"
             /\ UNCHANGED <<parMerged, parInAfter>>
        ELSE /\ parPc' = IF r.raised THEN "raised" ELSE "returned"
             /\ parMerged' = IF r.raised THEN parMerged
                             ELSE [data |-> r.data, hasErrors |-> r.hasErrors,
                                   errors |-> r.errors,
                                   errorsOfInput |-> r.errorsOfInput]
             /\ parInAfter' = [parIn EXCEPT !.errors = r.inputErrors]
  /\ UNCHANGED <<parN, parIn, parOut, parLast>>
  /\ UNCHANGED notPar

NextPar ==
  \/ ParStart
  \/ \E i \in 1..parN : \E o \in Outcomes(i) : BranchEnd(i, o)
  \/ ParMerge

SpecPar == InitPar /\ [][NextPar]_vars

\* ========================================= PARALLEL AGENT: THE SNAPSHOTS

\* The branches of the run: agent i is named i.
Branches == 1..NumBranches

InitSnap ==
  /\ BusIdle
  /\ LoopIdle
  /\ ParIdle
  /\ SeqIdle
  /\ EscIdle
  /\ SessIdle
  /\ RunIdle
  /\ SrvIdle
  /\ snapPc = "start"
  /\ snapTop = <<>>
  /\ snapObj = {}
  /\ snapSteps = [i \in Branches |-> 0]
  /\ snapSeen = [i \in Branches |-> {}]

\* context.copy(): a new dict with the keys of the input, each bound to the
\* same value object as in the input.
Copy(top) == top

\* tasks = [agent.run(context.copy()) for agent in self.sub_agents]: every
\* branch gets its own dict; the list under "timeline" is one object, which
\* all the dicts refer to.
SnapStart ==
  /\ snapPc = "start"
  /\ snapPc' = "running"
  /\ snapTop' = [i \in Branches |-> Copy(InputValue)]
  /\ UNCHANGED <<snapObj, snapSteps, snapSeen>>
  /\ UNCHANGED notSnap

\* One more step of branch i, between two of its awaits.
BranchSteps(i) ==
  /\ snapPc = "running"
  /\ snapSteps[i] < MaxBranchSteps
  /\ snapSteps' = [snapSteps EXCEPT ![i] = @ + 1]
  /\ UNCHANGED snapPc

\* Branch i runs context["k1"] = i: a write to its own dict.
BranchSetKey(i) ==
  /\ BranchSteps(i)
  /\ snapTop' = [snapTop EXCEPT ![i] = i]
  /\ UNCHANGED <<snapObj, snapSeen>>
  /\ UNCHANGED notSnap

\* Branch i runs context["timeline"].append(i): a write to the value stored
\* under a key.
BranchMutateValue(i) ==
  /\ BranchSteps(i)
  /\ snapObj' = snapObj \cup {i}
  /\ UNCHANGED <<snapTop, snapSeen>>
  /\ UNCHANGED notSnap

\* Branch i reads context["k1"] and context["timeline"].
BranchRead(i) ==
  /\ BranchSteps(i)
  /\ snapSeen' = [snapSeen EXCEPT ![i] = @ \cup {[top |-> snapTop[i],
                                                   obj |-> snapObj]}]
  /\ UNCHANGED <<snapTop, snapObj>>
  /\ UNCHANGED notSnap

NextSnap ==
  \/ SnapStart
  \/ \E i \in Branches : BranchSetKey(i)
  \/ \E i \in Branches : BranchMutateValue(i)
  \/ \E i \in Branches : BranchRead(i)

SpecSnap == InitSnap /\ [][NextSnap]_vars

\* ===================================================== SEQUENTIAL AGENT

\* The keys of the contexts of the model; the input holds the value 0 under
\* a key and agent i writes the value i.
SeqKeys == {"a", "b"}
SeqInputs == UNION { [S -> {InputValue}] : S \in SUBSET SeqKeys }

\* What the run of an agent does to the context it is given: it sets a key
\* in it, returns a new context with one key only, returns it as it is, or
\* raises.
SeqEffects ==
  [kind : {"put", "fresh"}, key : SeqKeys] \cup [kind : {"keep", "raise"},
                                                 key : {"a"}]

\* The context agent i returns when its run has effect e on ctx.
AgentReturn(e, i, ctx) ==
  CASE e.kind = "put" -> Put(ctx, e.key, i)
    [] e.kind = "fresh" -> (e.key :> i)
    [] OTHER -> ctx

InitSeq ==
  /\ BusIdle
  /\ LoopIdle
  /\ ParIdle
  /\ SnapIdle
  /\ EscIdle
  /\ SessIdle
  /\ RunIdle
  /\ SrvIdle
  /\ seqPc = "start"
  /\ seqN \in 0..MaxSeqAgents
  /\ seqIn \in SeqInputs
  /\ seqCur = EmptyCtx
  /\ seqIdx = 0
  /\ seqGiven = <<>>
  /\ seqOut = <<>>
  /\ seqResult = NoResult

\* current_context = context.copy()
SeqEnter ==
  /\ seqPc = "start"
  /\ seqPc' = "loop"
  /\ seqCur' = seqIn
  /\ seqIdx' = 1
  /\ UNCHANGED <<seqN, seqIn, seqGiven, seqOut, seqResult>>
  /\ UNCHANGED notSeq

\* A loop that hands every agent the context run was called with.
AgentInputOriginal(current, input) == input

\* agent.run(current_context): the context the next agent is given.
AgentInput(current, input) == current

\* A loop that goes on with the next agent when one has raised.
OnAgentFailureContinue(current) == [pc |-> "loop", result |-> NoResult]

\* No try around await agent.run(...): the exception leaves the for loop
\* and run, and the caller gets no context.
OnAgentFailure(current) == [pc |-> "raised", result |-> NoResult]

\* One pass of the for loop: current_context = await agent.run(...).
SeqStep(e) ==
  /\ seqPc = "loop"
  /\ seqIdx <= seqN
  /\ LET given == AgentInput(seqCur, seqIn)
     IN /\ seqGiven' = Append(seqGiven, given)
        /\ IF e.kind = "raise"
           THEN /\ seqOut' = Append(seqOut, [raised |-> TRUE, ctx |-> EmptyCtx])
                /\ seqPc' = OnAgentFailure(seqCur).pc
                /\ seqResult' = OnAgentFailure(seqCur).result
                /\ UNCHANGED seqCur
           ELSE /\ seqOut' = Append(seqOut,
                               [raised |-> FALSE,
                                ctx |-> AgentReturn(e, seqIdx, given)])
                /\ seqCur' = AgentReturn(e, seqIdx, given)
                /\ UNCHANGED <<seqPc, seqResult>>
  /\ seqIdx' = seqIdx + 1
  /\ UNCHANGED <<seqN, seqIn>>
  /\ UNCHANGED notSeq

\* The for loop is used up: return current_context.
SeqReturn ==
  /\ seqPc = "loop"
  /\ seqIdx > seqN
  /\ seqPc' = "returned"
  /\ seqResult' = [returned |-> TRUE, ctx |-> seqCur]
  /\ UNCHANGED <<seqN, seqIn, seqCur, seqIdx, seqGiven, seqOut>>
  /\ UNCHANGED notSeq

NextSeq ==
  \/ SeqEnter
  \/ \E e \in SeqEffects : SeqStep(e)
  \/ SeqReturn

SpecSeq == InitSeq /\ [][NextSeq]_vars

\* ====================================================== ESCALATION LOOP

\* models.EscalationLevel and the order of the tiers.
_ESCALATION_ORDER == <<"L1_AUTO", "L2_ONCALL", "L3_SENIOR", "L4_MANAGEMENT">>
EscalationLevels == Range(_ESCALATION_ORDER)

\* _ESCALATION_ORDER.index(level): 0 when the list does not hold it.
LevelIndex(level) ==
  IF level \in EscalationLevels
  THEN CHOOSE i \in 1..Len(_ESCALATION_ORDER) : _ESCALATION_ORDER[i] = level
  ELSE 0

\* A _next_escalation_level that starts over after the highest tier.
NextEscalationLevelWraps(current) ==
  IF LevelIndex(current) = 0 THEN "L2_ONCALL"
  ELSE _ESCALATION_ORDER[(LevelIndex(current) % Len(_ESCALATION_ORDER)) + 1]

\* verifier._next_escalation_level: the next tier, the highest one at the
\* highest, and L2_ONCALL for a value the order does not hold (ValueError).
_next_escalation_level(current) ==
  IF LevelIndex(current) = 0 THEN "L2_ONCALL"
  ELSE LET next_idx == IF LevelIndex(current) + 1 < Len(_ESCALATION_ORDER)
                       THEN LevelIndex(current) + 1
                       ELSE Len(_ESCALATION_ORDER)
       IN _ESCALATION_ORDER[next_idx]

\* remediator.INDICATOR_TO_SYMPTOM
INDICATOR_TO_SYMPTOM ==
  [cpu_critical |-> "high_cpu",
   memory_critical |-> "memory_leak",
   extreme_error_rate |-> "regression_after_deploy",
   latency_degradation |-> "high_latency",
   connection_pressure |-> "connection_pool_exhaustion",
   stack_trace_present |-> "regression_after_deploy",
   error_spike |-> "regression_after_deploy",
   timeout_pattern |-> "connection_timeout",
   fatal_log |-> "memory_leak",
   resource_limit_drift |-> "memory_leak",
   image_version_mismatch |-> "regression_after_deploy",
   env_var_drift |-> "config_drift",
   critical_config_drift |-> "config_drift"]

\* The indicators a diagnostic may report: the mapped ones and one that
\* INDICATOR_TO_SYMPTOM does not hold.
Indicators == DOMAIN INDICATOR_TO_SYMPTOM \cup {"unmapped_indicator"}

\* The loop of _select_action that maps the indicators to symptoms.
SymptomsOf(indicators) ==
  { INDICATOR_TO_SYMPTOM[i] : i \in indicators \cap DOMAIN INDICATOR_TO_SYMPTOM }

\* runbooks.RUNBOOKS, in the order of the dict: action type and
\* applicable_symptoms.
RUNBOOKS ==
  << [action |-> "restart_service",
      symptoms |-> {"memory_leak", "connection_pool_exhaustion",
                    "stale_cache", "thread_pool_exhaustion"}],
     [action |-> "scale_up",
      symptoms |-> {"high_cpu", "high_latency",
                    "connection_pool_exhaustion", "traffic_spike"}],
     [action |-> "rollback_deploy",
      symptoms |-> {"regression_after_deploy", "new_error_patterns",
                    "config_drift", "performance_degradation"}],
     [action |-> "clear_cache",
      symptoms |-> {"stale_data", "inconsistent_responses",
                    "serialization_errors"}],
     [action |-> "rotate_certs",
      symptoms |-> {"certificate_expiry", "tls_handshake_failure",
                    "ssl_error"}],
     [action |-> "drain_connections",
      symptoms |-> {"connection_pool_exhaustion", "connection_timeout",
                    "stale_connections"}] >>

\* runbooks.select_runbook_for_symptom: the first runbook of the dict that
\* lists the symptom, or None.
select_runbook_for_symptom(symptom) ==
  LET hits == { i \in 1..Len(RUNBOOKS) : symptom \in RUNBOOKS[i].symptoms }
  IN IF hits = {} THEN "None"
     ELSE RUNBOOKS[CHOOSE i \in hits : \A j \in hits : i <= j].action

\* action_priority_by_iteration of _select_action
LowRisk == <<"restart_service", "clear_cache", "drain_connections">>
MediumRisk == <<"scale_up", "drain_connections", "restart_service">>
HighRisk == <<"rollback_deploy", "scale_up", "rotate_certs">>

\* action_priority_by_iteration.get(iteration, ["restart_service"])
Candidates(iteration) ==
  CASE iteration = 1 -> LowRisk
    [] iteration = 2 -> MediumRisk
    [] iteration = 3 -> HighRisk
    [] OTHER -> <<"restart_service">>

\* The orders in which `for symptom in symptoms` may visit the set.
SymptomOrders(symptoms) ==
  { order \in [1..Cardinality(symptoms) -> symptoms] :
      \A i, j \in DOMAIN order : i # j => order[i] # order[j] }

\* remediator._select_action, with the order in which the set of symptoms
\* is visited.
_select_action(order, iteration) ==
  LET symptoms == Range(order)
      candidates == Candidates(iteration)
      matches == { i \in DOMAIN order :
                     /\ select_runbook_for_symptom(order[i]) # "None"
                     /\ select_runbook_for_symptom(order[i])
                          \in Range(candidates) }
  IN IF matches # {}
     THEN select_runbook_for_symptom(
            order[CHOOSE i \in matches : \A j \in matches : i <= j])
     ELSE IF "certificate_expiry" \in symptoms
             \/ "tls_handshake_failure" \in symptoms
     THEN "rotate_certs"
     ELSE IF "config_drift" \in symptoms /\ iteration >= 2
     THEN "rollback_deploy"
     ELSE candidates[1]

\* The contexts the loop is run on: without an escalation level or with
\* one of the tiers.
EscInputs ==
  {EmptyCtx} \cup { ("escalation_level" :> l) : l \in EscalationLevels }

InitEsc ==
  /\ BusIdle
  /\ LoopIdle
  /\ ParIdle
  /\ SnapIdle
  /\ SeqIdle
  /\ SessIdle
  /\ RunIdle
  /\ SrvIdle
  /\ escPc = "start"
  /\ escM \in 1..MaxEscM
  /\ escIter = 0
  /\ escCtx \in EscInputs
  /\ escIndicators \in { S \in SUBSET Indicators :
                          Cardinality(S) <= MaxIndicators }
  /\ escActions = <<>>
  /\ escChecks = <<>>

\* LoopAgent.run up to the for loop: the copy and the two setdefault.
EscEnter ==
  /\ escPc = "start"
  /\ escPc' = "top"
  /\ escCtx' = SetDefault(SetDefault(escCtx, "loop_iteration", 0),
                          "loop_complete", FALSE)
  /\ escIter' = 0
  /\ UNCHANGED <<escM, escIndicators, escActions, escChecks>>
  /\ UNCHANGED notEsc

\* The head of the for loop: the next pass starts with the remediator, or
\* the else clause marks the loop exhausted and run returns.
EscTop ==
  /\ escPc = "top"
  /\ IF HasNextIteration(escIter, escM)
     THEN /\ escCtx' = Put(escCtx, "loop_iteration", IterationNumber(escIter))
          /\ escPc' = "remediate"
     ELSE /\ escCtx' = MarkExhausted(escCtx)
          /\ escPc' = "done"
  /\ UNCHANGED <<escM, escIter, escIndicators, escActions, escChecks>>
  /\ UNCHANGED notEsc

\* remediator._execute_remediation: the RemediationAction of the run, with
\* its action type and the attempt number its description carries.
_execute_remediation(action_type, iteration) ==
  [action_type |-> action_type, attempt |-> iteration]

\* A remediator that keeps only the newest action.
AppendActionReplaces(existing_actions, executed_action) ==
  <<executed_action>>

\* existing_actions.append(executed_action)
AppendAction(existing_actions, executed_action) ==
  Append(existing_actions, executed_action)

\* RemediationAgent._heuristic_run: the action is selected for
\* context.get("loop_iteration", 1) and the symptoms of the diagnostics,
\* executed, appended to remediation_actions and stored as last_remediation.
EscRemediate(order) ==
  /\ escPc = "remediate"
  /\ LET iteration == Get(escCtx, "loop_iteration", 1)
         action == _select_action(order, iteration)
         executed_action == _execute_remediation(action, iteration)
         existing_actions == Get(escCtx, "remediation_actions", <<>>)
     IN /\ escActions' = Append(escActions,
                                [iteration |-> iteration,
                                 candidates |-> Candidates(iteration),
                                 symptoms |-> Range(order),
                                 action |-> action])
        /\ escCtx' = Put(Put(escCtx, "remediation_actions",
                             AppendAction(existing_actions, executed_action)),
                         "last_remediation", executed_action)
  /\ escPc' = "verify"
  /\ UNCHANGED <<escM, escIter, escIndicators, escChecks>>
  /\ UNCHANGED notEsc

\* A healthy branch that escalates all the same.
VerifierHealthyEscalates(ctx) ==
  Put(Put(Put(ctx, "escalation_level",
              _next_escalation_level(Get(ctx, "escalation_level", "L1_AUTO"))),
          "loop_complete", TRUE), "needs_escalation", FALSE)

\* VerificationAgent._heuristic_run, is_healthy.
VerifierHealthy(ctx) ==
  Put(Put(ctx, "loop_complete", TRUE), "needs_escalation", FALSE)

\* VerificationAgent._heuristic_run, not is_healthy.
VerifierUnhealthy(ctx) ==
  Put(Put(Put(ctx, "escalation_level",
              _next_escalation_level(Get(ctx, "escalation_level", "L1_AUTO"))),
          "needs_escalation", TRUE), "loop_complete", FALSE)

\* VerificationAgent._heuristic_run: the health check says healthy or not.
EscVerify(healthy) ==
  /\ escPc = "verify"
  /\ LET after == IF healthy THEN VerifierHealthy(escCtx)
                  ELSE VerifierUnhealthy(escCtx)
     IN /\ escCtx' = after
        /\ escChecks' = Append(escChecks, [healthy |-> healthy,
                                           before |-> escCtx,
                                           after |-> after])
  /\ escPc' = "check"
  /\ UNCHANGED <<escM, escIter, escIndicators, escActions>>
  /\ UNCHANGED notEsc

\* if current_context.get("loop_complete", False): break
EscCheck ==
  /\ escPc = "check"
  /\ IF BreakCondition(escCtx)
     THEN /\ escPc' = "done"
          /\ UNCHANGED escIter
     ELSE /\ escPc' = "top"
          /\ escIter' = escIter + 1
  /\ UNCHANGED <<escM, escCtx, escIndicators, escActions, escChecks>>
  /\ UNCHANGED notEsc

NextEsc ==
  \/ EscEnter
  \/ EscTop
  \/ \E order \in SymptomOrders(SymptomsOf(escIndicators)) : EscRemediate(order)
  \/ \E healthy \in BOOLEAN : EscVerify(healthy)
  \/ EscCheck

SpecEsc == InitEsc /\ [][NextEsc]_vars

\* ===================================================== INCIDENT SESSION

\* models.IncidentState, the values the handlers of the model write or test.
RECEIVED == "received"
ESCALATING == "escalating"
RESOLVED == "resolved"
HUMAN_TAKEOVER == "human_takeover"
FAILED == "failed"

\* The level field of an EscalateRequest: empty (the default), the name of
\* a tier, or a string that names none.
RequestLevels == {""} \cup EscalationLevels \cup {"L9_BOGUS"}

\* submit_incident: create_session (state RECEIVED, escalation_level
\* L1_AUTO by the model's default) and create_task(_run_pipeline()).
InitSess ==
  /\ BusIdle
  /\ LoopIdle
  /\ ParIdle
  /\ SnapIdle
  /\ SeqIdle
  /\ EscIdle
  /\ RunIdle
  /\ SrvIdle
  /\ sessState = RECEIVED
  /\ sessLevel = "L1_AUTO"
  /\ sessM \in 1..MaxEscM
  /\ sessRequests = 0
  /\ pipePc = "triage"
  /\ pipeLevel = "absent"
  /\ pipeIter = 0

\* ResponderAssignerAgent: the initial level by severity, L2_ONCALL for P1
\* and L1_AUTO for the others.
InitialLevel(severity) == IF severity = "P1" THEN "L2_ONCALL" ELSE "L1_AUTO"

\* Phase 1 of the pipeline: the responder writes the context's level.
PipeTriage(severity) ==
  /\ pipePc = "triage"
  /\ pipePc' = "loop"
  /\ pipeLevel' = InitialLevel(severity)
  /\ UNCHANGED <<sessState, sessLevel, sessM, sessRequests, pipeIter>>
  /\ UNCHANGED notSess

\* A pass of the escalation loop whose verification fails: the verifier
\* advances the context's level.
PipeVerifyFail ==
  /\ pipePc = "loop"
  /\ pipeIter < sessM
  /\ pipeIter' = pipeIter + 1
  /\ pipeLevel' = _next_escalation_level(pipeLevel)
  /\ UNCHANGED <<sessState, sessLevel, sessM, sessRequests, pipePc>>
  /\ UNCHANGED notSess

\* result.get("escalation_level", EscalationLevel.L1_AUTO)
FinalLevel(level) == IF level = "absent" THEN "L1_AUTO" ELSE level

\* _run_pipeline after run_incident_pipeline returned: the session gets the
\* final state and the escalation level of the returned context. The
\* pipeline returns when a verification passes (resolved), when the loop is
\* exhausted, or when a phase raised (the error is caught in the pipeline).
PipeFinish(outcome) ==
  /\ pipePc \in {"triage", "loop"}
  /\ outcome = "resolved" => pipePc = "loop" /\ pipeIter < sessM
  /\ outcome = "exhausted" => pipePc = "loop" /\ pipeIter = sessM
  /\ pipePc' = "finished"
  /\ sessState' = IF outcome = "resolved" THEN RESOLVED ELSE HUMAN_TAKEOVER
  /\ sessLevel' = FinalLevel(pipeLevel)
  /\ UNCHANGED <<sessM, sessRequests, pipeLevel, pipeIter>>
  /\ UNCHANGED notSess

\* escalate_incident: target_level is L3_SENIOR unless the request names a
\* level.
EscalateTarget(level) == IF level = "" THEN "L3_SENIOR" ELSE level

\* POST /escalate: refused for a resolved or failed incident and for a
\* string that names no level; else the session gets the target level.
Escalate(level) ==
  /\ sessRequests < MaxRequests
  /\ sessRequests' = sessRequests + 1
  /\ IF sessState \in {RESOLVED, FAILED} \/ level \notin {""} \cup EscalationLevels
     THEN UNCHANGED <<sessState, sessLevel>>
     ELSE /\ sessState' = ESCALATING
          /\ sessLevel' = EscalateTarget(level)
  /\ UNCHANGED <<sessM, pipePc, pipeLevel, pipeIter>>
  /\ UNCHANGED notSess

\* POST /resolve and POST /takeover: refused for a resolved incident; else
\* the running pipeline task is cancelled and the session gets the state.
Takeover(newState) ==
  /\ sessState # RESOLVED
  /\ pipePc' = IF pipePc \in {"triage", "loop"} THEN "cancelled" ELSE pipePc
  /\ sessState' = newState
  /\ UNCHANGED <<sessLevel, sessM, sessRequests, pipeLevel, pipeIter>>
  /\ UNCHANGED notSess

NextSess ==
  \/ \E severity \in {"P1", "P3"} : PipeTriage(severity)
  \/ PipeVerifyFail
  \/ \E outcome \in {"resolved", "exhausted", "error"} : PipeFinish(outcome)
  \/ \E level \in RequestLevels : Escalate(level)
  \/ \E newState \in {RESOLVED, HUMAN_TAKEOVER} : Takeover(newState)

SpecSess == InitSess /\ [][NextSess]_vars

\* ================================================ PIPELINE ORCHESTRATOR

\* An entry of the log of a run: an event handed to event_stream.emit, or
\* the start of the run of an agent.
Emitted(event_type) == [kind |-> "event", name |-> event_type]
Ran(agent) == [kind |-> "run", name |-> agent]
\* The run of an agent raised to the orchestrator.
Raised(agent) == [kind |-> "raise", name |-> agent]

\* The sub-agents of build_parallel_diagnostics, in declaration order, and
\* the key each one writes its DiagnosticResult under.
DiagnosticAgents == <<"log_analyzer", "metrics_checker", "config_auditor">>
DiagnosticKey(agent) ==
  CASE agent = "log_analyzer" -> "log_diagnostics"
    [] agent = "metrics_checker" -> "metrics_diagnostics"
    [] agent = "config_auditor" -> "config_diagnostics"

\* The message of the exception a phase raises.
PhaseError == "boom"

\* context = {"alert": alert, "session_id": session_id, "timeline": []}
InitialContext == ("alert" :> "ALT-1") @@ ("session_id" :> "S1")

InitRun ==
  /\ SrvIdle
  /\ BusIdle
  /\ LoopIdle
  /\ ParIdle
  /\ SnapIdle
  /\ SeqIdle
  /\ EscIdle
  /\ SessIdle
  /\ runPc = "start"
  /\ runM \in 0..MaxEscM
  /\ runIter = 0
  /\ runCtx = InitialContext
  /\ runCur = EmptyCtx
  /\ runDiag = [b \in Range(DiagnosticAgents) |-> "pending"]
  /\ runLog = <<>>

\* An orchestrator that starts the failed phase again after the handler.
AfterRaiseRetries(pc) == pc

\* Where the run is after the except clause: at `return context`.
AfterRaise(pc) == "returned"

\* except Exception as exc: one error event, the error on the context the
\* variable `context` holds, then the return.
Except(log, agent) ==
  /\ runLog' = log \o <<Raised(agent), Emitted(EVENT_ERROR)>>
  /\ runCtx' = Put(runCtx, "error", PhaseError)
  /\ runPc' = AfterRaise(runPc)

\* Phase 0 and the start of phase 1: the events up to the await of the
\* triage pipeline.
RunReceive ==
  /\ runPc = "start"
  /\ runLog' = runLog \o <<Emitted(EVENT_RECEIVED), Emitted(EVENT_ENRICHING)>>
  /\ runPc' = "triage"
  /\ UNCHANGED <<runM, runIter, runCtx, runCur, runDiag>>
  /\ UNCHANGED notRun

\* Phase 1: triage_pipeline.run(context) returns or raises; on return the
\* events of the phase and the three phase-start events of phase 2, up to
\* the await of the diagnostics pipeline.
RunTriage(raises, severity) ==
  /\ runPc = "triage"
  /\ IF raises
     THEN Except(Append(runLog, Ran("sequential_triage_pipeline")),
                 "sequential_triage_pipeline")
     ELSE /\ runCtx' = Put(Put(runCtx, "severity", severity),
                           "escalation_level", InitialLevel(severity))
          /\ runLog' = runLog \o
               <<Ran("sequential_triage_pipeline"),
                 Emitted(EVENT_ENRICHED), Emitted(EVENT_TRIAGING),
                 Emitted(EVENT_TRIAGED), Emitted(EVENT_DIAGNOSING_LOGS),
                 Emitted(EVENT_DIAGNOSING_METRICS),
                 Emitted(EVENT_DIAGNOSING_CONFIG)>>
          /\ runPc' = "diagnostics"
  /\ UNCHANGED <<runM, runIter, runCur, runDiag>>
  /\ UNCHANGED notRun

\* One branch of the diagnostics pipeline runs: it returns its context
\* with its DiagnosticResult or it raises.
RunBranch(agent, fails) ==
  /\ runPc = "diagnostics"
  /\ runDiag[agent] = "pending"
  /\ runDiag' = [runDiag EXCEPT ![agent] = IF fails THEN "failed" ELSE "ok"]
  /\ runLog' = Append(runLog, Ran(agent))
  /\ UNCHANGED <<runPc, runM, runIter, runCtx, runCur>>
  /\ UNCHANGED notRun

\* The context ParallelAgent.run returns: the result keys of the branches
\* that returned and an errors entry for each branch that raised.
DiagnosticsMerged(ctx, diag) ==
  LET failed == { b \in DOMAIN diag : diag[b] = "failed" }
      results == [k \in { DiagnosticKey(b) : b \in DOMAIN diag \ failed }
                    |-> "DiagnosticResult"]
      merged == results @@ ctx
  IN IF failed = {} THEN merged ELSE Put(merged, "errors", failed)

\* A diagnostics pipeline that raises when one of its branches raised.
DiagnosticsRaisesOnFailure(diag) == \E b \in DOMAIN diag : diag[b] = "failed"

\* diagnostics_pipeline.run raises: never, the gather of ParallelAgent.run
\* hands the exceptions of the branches back as results.
DiagnosticsRaises(diag) == GatherRaises(diag, Len(DiagnosticAgents))

\* Phase 2 after the gather: the merged context, diagnostics_complete and
\* the start of phase 3 up to the await of the escalation loop, whose run
\* begins with the copy and the two setdefault.
RunDiagnosticsDone ==
  /\ runPc = "diagnostics"
  /\ \A b \in DOMAIN runDiag : runDiag[b] # "pending"
  /\ IF DiagnosticsRaises(runDiag)
     THEN /\ Except(runLog, "parallel_diagnostics")
          /\ UNCHANGED <<runCur, runIter>>
     ELSE /\ runCtx' = DiagnosticsMerged(runCtx, runDiag)
          /\ runLog' = runLog \o <<Emitted(EVENT_DIAGNOSTICS_COMPLETE),
                                   Emitted(EVENT_REMEDIATING),
                                   Ran("escalation_loop")>>
          /\ runCur' = SetDefault(SetDefault(runCtx', "loop_iteration", 0),
                                  "loop_complete", FALSE)
          /\ runIter' = 0
          /\ runPc' = "loop"
  /\ UNCHANGED <<runM, runDiag>>
  /\ UNCHANGED notRun

\* One pass of the escalation loop inside escalation_loop.run: remediator
\* and verifier run, or the remediator raises and the loop with it; the
\* break leaves the loop and run returns to the orchestrator.
RunLoopPass(outcome) ==
  /\ runPc = "loop"
  /\ HasNextIteration(runIter, runM)
  /\ LET iteration == IterationNumber(runIter)
         log == Append(runLog, Ran("remediator"))
         remediated ==
           Put(Put(runCur, "loop_iteration", iteration), "remediation_actions",
               AppendAction(Get(runCur, "remediation_actions", <<>>),
                            [attempt |-> iteration]))
         verified == IF outcome = "healthy" THEN VerifierHealthy(remediated)
                     ELSE VerifierUnhealthy(remediated)
     IN IF outcome = "raise"
        THEN /\ Except(log, "escalation_loop")
             /\ UNCHANGED <<runCur, runIter>>
        ELSE /\ runLog' = Append(log, Ran("verifier"))
             /\ runCur' = verified
             /\ IF BreakCondition(verified)
                THEN /\ runCtx' = verified
                     /\ runPc' = "phase4"
                     /\ UNCHANGED runIter
                ELSE /\ runIter' = runIter + 1
                     /\ UNCHANGED <<runCtx, runPc>>
  /\ UNCHANGED <<runM, runDiag>>
  /\ UNCHANGED notRun

\* The range of the escalation loop is used up: the else clause marks the
\* context and run returns to the orchestrator.
RunLoopExhausted ==
  /\ runPc = "loop"
  /\ ~HasNextIteration(runIter, runM)
  /\ runCur' = MarkExhausted(runCur)
  /\ runCtx' = runCur'
  /\ runPc' = "phase4"
  /\ UNCHANGED <<runM, runIter, runDiag, runLog>>
  /\ UNCHANGED notRun

\* One remediation_attempted event for each action of the history, then
\* verifying and verification_result.
AfterLoopEvents(ctx) ==
  [i \in 1..Len(Get(ctx, "remediation_actions", <<>>)) |->
     Emitted(EVENT_REMEDIATION_ATTEMPTED)]
  \o <<Emitted(EVENT_VERIFYING), Emitted(EVENT_VERIFICATION_RESULT)>>

\* An exhausted branch that skips the escalating event.
ExhaustedEventsTakeoverOnly(ctx) == <<Emitted(EVENT_HUMAN_TAKEOVER)>>

\* elif loop_exhausted: escalating, then human_takeover.
ExhaustedEvents(ctx) ==
  <<Emitted(EVENT_ESCALATING), Emitted(EVENT_HUMAN_TAKEOVER)>>

\* A phase 4 that tests the two flags one after the other.
Phase4EventsBoth(ctx) ==
  (IF Get(ctx, "loop_complete", FALSE) THEN <<Emitted(EVENT_RESOLVED)>>
   ELSE <<>>)
  \o <<Emitted(EVENT_HUMAN_TAKEOVER)>>

\* Phase 4: if is_resolved ... elif loop_exhausted ...
Phase4Events(ctx) ==
  IF Get(ctx, "loop_complete", FALSE) THEN <<Emitted(EVENT_RESOLVED)>>
  ELSE IF Get(ctx, "loop_exhausted", FALSE) THEN ExhaustedEvents(ctx)
  ELSE <<>>

\* context["report"] = _build_report(context, session_id[, resolved=False])
Phase4Context(ctx) ==
  IF Get(ctx, "loop_complete", FALSE) THEN Put(ctx, "report", "final")
  ELSE IF Get(ctx, "loop_exhausted", FALSE) THEN Put(ctx, "report", "partial")
  ELSE ctx

\* The rest of the try block after the loop returned, and the return.
RunPhase4 ==
  /\ runPc = "phase4"
  /\ runLog' = runLog \o AfterLoopEvents(runCtx) \o Phase4Events(runCtx)
  /\ runCtx' = Phase4Context(runCtx)
  /\ runPc' = "returned"
  /\ UNCHANGED <<runM, runIter, runCur, runDiag>>
  /\ UNCHANGED notRun

NextRun ==
  \/ RunReceive
  \/ \E raises \in BOOLEAN, severity \in {"P1", "P3"} :
       RunTriage(raises, severity)
  \/ \E agent \in Range(DiagnosticAgents), fails \in BOOLEAN :
       RunBranch(agent, fails)
  \/ RunDiagnosticsDone
  \/ \E outcome \in {"healthy", "unhealthy", "raise"} : RunLoopPass(outcome)
  \/ RunLoopExhausted
  \/ RunPhase4

SpecRun == InitRun /\ [][NextRun]_vars

\* ================================ MANUAL RESOLVE AND TAKEOVER, THE STREAM

\* An incident whose pipeline task is running and whose stream has no
\* subscriber yet.
InitApi ==
  /\ BusIdle
  /\ LoopIdle
  /\ ParIdle
  /\ SnapIdle
  /\ SeqIdle
  /\ EscIdle
  /\ RunIdle
  /\ SrvIdle
  /\ sessState = RECEIVED
  /\ sessLevel = "L1_AUTO"
  /\ sessM = 1
  /\ sessRequests = 0
  /\ pipePc = "triage"
  /\ pipeLevel = "absent"
  /\ pipeIter = 0

\* The running pipeline task emits an event of its phases.
TaskEmit ==
  /\ pipePc \in {"triage", "loop"}
  /\ Emit(EVENT_RECEIVED)

\* The terminal event resolve_incident and takeover_incident emit.
ManualEvent(newState) ==
  IF newState = RESOLVED THEN EVENT_RESOLVED ELSE EVENT_HUMAN_TAKEOVER

\* POST /resolve and POST /takeover, the whole handler: refused for a
\* resolved incident; else the running pipeline task is cancelled, the
\* session gets the state and the terminal event is emitted. The handler
\* does not call close.
ManualEnd(newState) ==
  /\ UNCHANGED <<loopVars, parVars, snapVars, seqVars, escVars, runVars,
               srvVars>>
  /\ sessState # RESOLVED
  /\ Len(history) < MaxEvents
  /\ pipePc' = IF pipePc \in {"triage", "loop"} THEN "cancelled" ELSE pipePc
  /\ sessState' = newState
  /\ history' = Append(history, NewEvent(ManualEvent(newState)))
  /\ queue' = FanOut(NewEvent(ManualEvent(newState)))
  /\ UNCHANGED <<registry, subPc, replayIdx, yielded, joinLen, endCause>>
  /\ UNCHANGED <<sessLevel, sessM, sessRequests, pipeLevel, pipeIter>>

NextApi ==
  \/ TaskEmit
  \/ \E newState \in {RESOLVED, HUMAN_TAKEOVER} : ManualEnd(newState)
  \/ \E s \in Subs : Subscribe(s)
  \/ \E s \in Subs : ReplayNext(s)
  \/ \E s \in Subs : LiveNext(s)
  \/ \E s \in Subs : Wake(s)

SpecApi == InitApi /\ [][NextApi]_vars

\* The consumer of a sequence keeps asking for the next item (the async for
\* of the SSE generator) and a completed queue.get() resumes its waiter.
SpecApiFair ==
  /\ SpecApi
  /\ \A s \in Subs :
       WF_vars(ReplayNext(s)) /\ WF_vars(LiveNext(s)) /\ WF_vars(Wake(s))

\* ============================== THE HANDLERS OF A SESSION AND ITS PIPELINE

\* The id of the session submit_incident created, and the ids a request may
\* name: that one, or one that no session has.
SessionId == "S1"
RequestIds == {SessionId, "unknown"}

\* The answer of a handler: HTTPException(status_code=404 or 400), or the
\* returned dict (200).
Reply(request, session_id, status) ==
  [request |-> request, session_id |-> session_id, status |-> status]

\* session_manager.get_session(session_id) is None
NotFound(session_id) == session_id # SessionId

\* An incident that has no subscriber and whose pipeline task has just been
\* created.
InitSrv ==
  /\ BusIdle
  /\ LoopIdle
  /\ ParIdle
  /\ SnapIdle
  /\ SeqIdle
  /\ EscIdle
  /\ RunIdle
  /\ SrvIdle
  /\ sessState = RECEIVED
  /\ sessLevel = "L1_AUTO"
  /\ sessM \in 1..2
  /\ sessRequests = 0
  /\ pipePc = "triage"
  /\ pipeLevel = "absent"
  /\ pipeIter = 0

\* The events run_incident_pipeline emits last: resolved when the loop
\* completed, escalating and human_takeover when it was exhausted, error when
\* a phase raised (the except clause of the pipeline).
LastEvents(outcome) ==
  CASE outcome = "resolved" -> <<EVENT_RESOLVED>>
    [] outcome = "exhausted" -> <<EVENT_ESCALATING, EVENT_HUMAN_TAKEOVER>>
    [] OTHER -> <<EVENT_ERROR>>

\* Several emits in a row on a stream.
EmitAll(hist, types) ==
  hist \o [i \in 1..Len(types) |-> [seq |-> Len(hist) + i, type |-> types[i]]]

\* final_state of _run_pipeline: RESOLVED if result.get("loop_complete"),
\* else HUMAN_TAKEOVER. A run whose phase raised returns the context of the
\* phases before the loop returned, without loop_complete.
FinalState(outcome) ==
  IF outcome = "resolved" THEN RESOLVED ELSE HUMAN_TAKEOVER

\* The task from its last suspension to its end: the pipeline emits its last
\* events and returns, _run_pipeline writes the session. No await in between
\* suspends (emit never does), so no handler runs in between.
TaskReturn(outcome) ==
  /\ pipePc \in {"triage", "loop"}
  /\ outcome = "resolved" => pipePc = "loop" /\ pipeIter < sessM
  /\ outcome = "exhausted" => pipePc = "loop" /\ pipeIter = sessM
  /\ pipePc' = "finished"
  /\ history' = EmitAll(history, LastEvents(outcome))
  /\ sessState' = FinalState(outcome)
  /\ sessLevel' = FinalLevel(pipeLevel)
  /\ UNCHANGED <<sessM, sessRequests, pipeLevel, pipeIter, apiReply>>
  /\ UNCHANGED <<registry, queue, subPc, replayIdx, yielded, joinLen, endCause>>
  /\ UNCHANGED <<loopVars, parVars, snapVars, seqVars, escVars, runVars>>

\* GET /api/v1/incidents/{session_id}
GetIncident(session_id) ==
  /\ sessRequests < MaxRequests
  /\ sessRequests' = sessRequests + 1
  /\ apiReply' = Reply("get", session_id,
                       IF NotFound(session_id) THEN 404 ELSE 200)
  /\ UNCHANGED <<sessState, sessLevel, sessM, pipePc, pipeLevel, pipeIter>>
  /\ UNCHANGED <<busVars, loopVars, parVars, snapVars, seqVars, escVars,
                 runVars>>

\* escalate_incident refuses a resolved or failed incident and a level that
\* EscalationLevel(req.level) does not know.
EscalateRefused(state, level) ==
  state \in {RESOLVED, FAILED} \/ level \notin {""} \cup EscalationLevels

\* POST /escalate, the whole handler: 404, 400, or the session gets the
\* state ESCALATING and the target level and an escalating event is emitted.
EscalateIncident(session_id, level) ==
  /\ sessRequests < MaxRequests
  /\ sessRequests' = sessRequests + 1
  /\ IF NotFound(session_id)
     THEN /\ apiReply' = Reply("escalate", session_id, 404)
          /\ UNCHANGED <<sessState, sessLevel, history>>
     ELSE IF EscalateRefused(sessState, level)
     THEN /\ apiReply' = Reply("escalate", session_id, 400)
          /\ UNCHANGED <<sessState, sessLevel, history>>
     ELSE /\ apiReply' = Reply("escalate", session_id, 200)
          /\ sessState' = ESCALATING
          /\ sessLevel' = EscalateTarget(level)
          /\ history' = EmitAll(history, <<EVENT_ESCALATING>>)
  /\ UNCHANGED <<sessM, pipePc, pipeLevel, pipeIter>>
  /\ UNCHANGED <<registry, queue, subPc, replayIdx, yielded, joinLen, endCause>>
  /\ UNCHANGED <<loopVars, parVars, snapVars, seqVars, escVars, runVars>>

\* A handler that never refuses a resolved incident.
EndRefusedNever(state) == FALSE

\* resolve_incident and takeover_incident refuse a resolved incident.
EndRefused(state) == state = RESOLVED

\* A handler that leaves the pipeline task running.
CancelTaskForgotten(pc) == pc

\* if task and not task.done(): task.cancel()
CancelTask(pc) == IF pc \in {"triage", "loop"} THEN "cancelled" ELSE pc

\* POST /resolve (newState RESOLVED) and POST /takeover (HUMAN_TAKEOVER),
\* the whole handler: 404, 400, or the running task is cancelled, the
\* session gets the state and the terminal event is emitted.
EndIncident(session_id, newState) ==
  /\ sessRequests < MaxRequests
  /\ sessRequests' = sessRequests + 1
  /\ LET request == IF newState = RESOLVED THEN "resolve" ELSE "takeover"
     IN IF NotFound(session_id)
        THEN /\ apiReply' = Reply(request, session_id, 404)
             /\ UNCHANGED <<sessState, pipePc, history>>
        ELSE IF EndRefused(sessState)
        THEN /\ apiReply' = Reply(request, session_id, 400)
             /\ UNCHANGED <<sessState, pipePc, history>>
        ELSE /\ apiReply' = Reply(request, session_id, 200)
             /\ pipePc' = CancelTask(pipePc)
             /\ sessState' = newState
             /\ history' = EmitAll(history, <<ManualEvent(newState)>>)
  /\ UNCHANGED <<sessLevel, sessM, pipeLevel, pipeIter>>
  /\ UNCHANGED <<registry, queue, subPc, replayIdx, yielded, joinLen, endCause>>
  /\ UNCHANGED <<loopVars, parVars, snapVars, seqVars, escVars, runVars>>

NextSrv ==
  \/ \E severity \in {"P1", "P3"} : PipeTriage(severity)
  \/ PipeVerifyFail
  \/ TaskEmit
  \/ \E outcome \in {"resolved", "exhausted", "error"} : TaskReturn(outcome)
  \/ \E session_id \in RequestIds : GetIncident(session_id)
  \/ \E session_id \in RequestIds, level \in RequestLevels :
       EscalateIncident(session_id, level)
  \/ \E session_id \in RequestIds, newState \in {RESOLVED, HUMAN_TAKEOVER} :
       EndIncident(session_id, newState)

SpecSrv == InitSrv /\ [][NextSrv]_vars

\* ===================================================== CLAIMS: EVENT BUS

YieldedTerminal(s) ==
  \E i \in 1..Len(yielded[s]) : yielded[s][i].type \in _TERMINAL_EVENTS

\* C1: once a terminal-type event (resolved, human_takeover, error) has been
\* emitted, the sequence of every subscriber ends at or immediately after
\* that event: a terminal event is the last event a subscriber is yielded,
\* and a subscriber that was yielded one (live or by replay) does not go on
\* to wait for further events.
C1_EndsAtTerminalEvent ==
  \A s \in Subs :
    /\ \A i \in 1..Len(yielded[s]) :
         yielded[s][i].type \in _TERMINAL_EVENTS => i = Len(yielded[s])
    /\ YieldedTerminal(s) => subPc[s] # "get"

\* C2: under every interleaving of emit with one subscriber's replay and
\* live phases, the events yielded to the subscriber are strictly increasing
\* in emission order (none twice, none after a later one).
C2_YieldedStrictlyIncreasing ==
  \A s \in Subs :
    \A i, j \in 1..Len(yielded[s]) :
      i < j => yielded[s][i].seq < yielded[s][j].seq

C28_EndedSubscriberDeregistered ==
  \A s \in Subs : subPc[s] = "done" => s \notin Range(registry)

\* C29: close(session) delivers the closing sentinel to every live
\* subscriber of the session, so that each such subscriber's sequence ends
\* after the events already queued for it, removes the session's subscriber
\* registry, and leaves the session's history unchanged.
C29_CloseDeliversSentinel ==
  [][Close =>
       /\ \A s \in Range(registry) : queue'[s] = Append(queue[s], Sentinel)
       /\ registry' = <<>>
       /\ history' = history]_vars

\* C30: when a subscriber's queue is full at emit time, the event is dropped
\* for that subscriber only: emit still returns normally, the event is
\* still appended to the session history, and every other subscriber of
\* the session whose queue has room still receives it.
C30_FullQueueDropsForThatSubscriberOnly ==
  [][\A t \in EmitTypes :
       Emit(t) /\ (\E s \in Range(registry) : Len(queue[s]) = MaxQueueSize) =>
         /\ history' = Append(history, NewEvent(t))
         /\ \A s \in Range(registry) :
              queue'[s] = IF Len(queue[s]) < MaxQueueSize
                          THEN Append(queue[s], NewEvent(t))
                          ELSE queue[s]]_vars

\* C30 witness: two registered subscribers, both there when the newest
\* event was emitted; the queue of one was full and does not hold the
\* event, the queue of the other one holds it.
C30_Witness ==
  \E a, b \in Range(registry) :
    /\ history # <<>>
    /\ joinLen[a] < Len(history)
    /\ joinLen[b] < Len(history)
    /\ Len(queue[a]) = MaxQueueSize
    /\ history[Len(history)] \notin Range(queue[a]) \cup Range(yielded[a])
    /\ history[Len(history)] \in Range(queue[b])
    /\ history[Len(history)].type = EVENT_RECEIVED

\* C31: registration and deregistration are serialized against emit: under
\* every interleaving of subscribe, subscriber termination, close and emit,
\* each emit offers its event exactly once to every queue registered at the
\* moment of the emit (a queue appears once in the registry; the event is
\* appended unless the queue is full) and to no queue that is not
\* registered then.
C31_EmitOffersToRegisteredQueuesOnly ==
  /\ [](\A i, j \in 1..Len(registry) : registry[i] = registry[j] => i = j)
  /\ [][history' # history =>
          \A s \in Subs :
            IF s \in Range(registry)
            THEN queue'[s] \in {queue[s], Append(queue[s], history'[Len(history')])}
                 /\ (Len(queue[s]) < MaxQueueSize => queue'[s] # queue[s])
            ELSE queue'[s] = queue[s]]_vars

\* C31 witness: one subscriber left before the first emit (it was cancelled
\* while waiting, got nothing and is no longer registered), another one is
\* registered and holds an event emitted after that.
C31_Witness ==
  \E a, b \in Subs :
    /\ subPc[a] = "done" /\ endCause[a] = "cancel" /\ a \notin Range(registry)
    /\ joinLen[a] = 0 /\ yielded[a] = <<>> /\ queue[a] = <<>>
    /\ b \in Range(registry)
    /\ history # <<>>
    /\ history[Len(history)] \in Range(queue[b])

\* ==================================================== CLAIMS: LOOP AGENT

\* run has returned current_context (loopCtx) to its caller.
LoopReturned == loopPc = "done"

\* No check after a run of the sub-agent sequence found the flag true.
NeverComplete == \A i \in 1..Len(loopChecks) : ~loopChecks[i]

\* C4: whatever the input context holds and whatever the sub-agents do, the
\* context LoopAgent.run returns never has loop_complete and loop_exhausted
\* both true.
C4_NeverCompleteAndExhausted ==
  LoopReturned =>
    ~(Get(loopCtx, "loop_complete", FALSE) /\ Get(loopCtx, "loop_exhausted", FALSE))

\* C5: with maximum iteration count M, the loop_iteration a sub-agent is
\* given during the run, and the one in the returned context, never exceeds M.
C5_IterationNeverExceedsM ==
  /\ \A i \in 1..Len(loopSeen) : loopSeen[i] <= loopM
  /\ LoopReturned => loopCtx["loop_iteration"] <= loopM

\* C5 witness: the input carried a counter above M, every one of the M
\* iterations ran, and run returned.
C5_Witness ==
  /\ LoopReturned
  /\ loopM >= 2
  /\ Get(loopIn, "loop_iteration", 0) > loopM
  /\ Len(loopSeen) = loopM * loopN

\* C6: if the completion flag is never true after a run of the sub-agent
\* sequence, run with maximum M runs the sequence exactly M times and then
\* returns normally (exhaustion raises nothing) with loop_exhausted true,
\* loop_complete false and loop_iteration = M.
C6_ExhaustedAfterExactlyM ==
  /\ Len(loopChecks) <= loopM
  /\ (Len(loopChecks) = loopM /\ NeverComplete) => loopPc \in {"top", "done"}
  /\ (LoopReturned /\ NeverComplete) =>
       /\ Len(loopChecks) = loopM
       /\ Len(loopSeen) = loopM * loopN
       /\ Get(loopCtx, "loop_exhausted", FALSE) = TRUE
       /\ "loop_complete" \in DOMAIN loopCtx /\ loopCtx["loop_complete"] = FALSE
       /\ loopCtx["loop_iteration"] = loopM

\* C6 witness: a run with M = 3 returned without the flag ever found true.
C6_Witness ==
  /\ LoopReturned
  /\ NeverComplete
  /\ loopM = 3
  /\ Len(loopChecks) = 3

\* C7: if the completion flag is first true after the k-th run of the
\* sub-agent sequence (1 <= k <= M), run stops there: no (k+1)-th run, the
\* returned loop_iteration is k and loop_exhausted is absent or false, also
\* when k = M.
C7_StopsAtFirstCompletion ==
  \A k \in 1..Len(loopChecks) :
    loopChecks[k] =>
      /\ Len(loopChecks) = k
      /\ Len(loopSeen) = k * loopN
      /\ LoopReturned
      /\ loopCtx["loop_iteration"] = k
      /\ Get(loopCtx, "loop_exhausted", FALSE) = FALSE

\* C35: run initialises loop_iteration to 0 and loop_complete to false only
\* when they are absent from the input, and tests the completion flag only
\* after an iteration: with M >= 1 the sub-agent sequence always runs at
\* least once, even when the input already has loop_complete true, and the
\* counter restarts at 1 whatever loop_iteration the input carried.
C35_DefaultsOnlyWhenAbsentAndOneIteration ==
  /\ loopPc = "top" /\ loopSeen = <<>> =>
       /\ loopCtx["loop_iteration"] = Get(loopIn, "loop_iteration", 0)
       /\ loopCtx["loop_complete"] = Get(loopIn, "loop_complete", FALSE)
       /\ \A k \in DOMAIN loopIn : loopCtx[k] = loopIn[k]
  /\ loopPc = "done" => Len(loopSeen) >= loopN /\ loopChecks # <<>>
  /\ loopSeen # <<>> => loopSeen[1] = 1

\* C35 witness: the input carried loop_complete true and a counter above M;
\* the sequence of sub-agents has run once, from the counter 1, and run has
\* returned after the first test of the flag.
C35_Witness ==
  /\ loopPc = "done"
  /\ Get(loopIn, "loop_complete", FALSE)
  /\ Get(loopIn, "loop_iteration", 0) = MaxM + 1
  /\ loopN = MaxSubAgents
  /\ loopSeen = [j \in 1..loopN |-> 1]
  /\ loopChecks = <<TRUE>>

\* ================================================ CLAIMS: PARALLEL AGENT

\* run has returned parMerged to its caller.
ParReturned == parPc = "returned"
Failed(i) == parOut[i].kind = "fail"
Succeeded(i) == parOut[i].kind = "ok"

\* C8: after ParallelAgent.run the merged context's errors map has an entry
\* errors[agent.name] with the error message for every branch that failed
\* and no entry for a branch that succeeded.
C8_ErrorsEntryPerFailedBranch ==
  ParReturned =>
    \A i \in 1..parN :
      /\ Failed(i) =>
           parMerged.hasErrors /\ <<i, parOut[i].msg>> \in parMerged.errors
      /\ Succeeded(i) =>
           ~(parMerged.hasErrors /\ \E p \in parMerged.errors : p[1] = i)

\* The successful branches that wrote key k.
Writers(k) ==
  { i \in 1..parN : Succeeded(i) /\ k \in DOMAIN parOut[i].writes }

Latest(S) == CHOOSE x \in S : \A y \in S : y <= x

\* C9: after a run in which some branches fail and the others succeed, the
\* merged context contains every key written by a succeeding branch; a key
\* that several succeeding branches wrote has the value of the one declared
\* latest; and no key written only by a failed branch is merged.
C9_SuccessfulKeysLatestWins ==
  (/\ ParReturned
   /\ \E i \in 1..parN : Failed(i)
   /\ \E i \in 1..parN : Succeeded(i))
  =>
    /\ \A k \in DataKeys :
         /\ Writers(k) # {} => k \in DOMAIN parMerged.data
         /\ Cardinality(Writers(k)) >= 2 =>
              parMerged.data[k] = Latest(Writers(k))
    /\ \A k \in DataKeys :
         (Writers(k) = {} /\ k \notin DOMAIN parIn.data)
           => k \notin DOMAIN parMerged.data

\* C10: ParallelAgent.run never fails because a branch failed: whichever
\* branches raise, all of them included, nothing is raised to run's caller,
\* and once every branch has ended run returns a merged context.
C10_BranchFailureNeverRaised ==
  /\ parPc # "raised"
  /\ ParReturned => \A k \in DOMAIN parIn.data : k \in DOMAIN parMerged.data

\* C10 witness: run returned although every one of its branches raised.
C10_Witness ==
  /\ ParReturned
  /\ parN >= 2
  /\ \A i \in 1..parN : Failed(i)

\* C11: ParallelAgent.run starts merging only after every branch has ended,
\* with a result or with an error; while run waits, a branch that has ended
\* (also with a failure) leaves every sibling that is still running free to
\* run to any of its ends.
C11_MergeAfterEveryBranchEnded ==
  /\ parPc \in {"returned", "raised"} =>
       \A i \in 1..parN : parOut[i] # Pending
  /\ parPc = "gather" =>
       \A i \in 1..parN :
         parOut[i] = Pending =>
           \A o \in Outcomes(i) : ENABLED BranchEnd(i, o)

\* C11 witness: the first of three branches failed, the third ended last
\* and successfully, and its write is in the merged context.
C11_Witness ==
  /\ ParReturned
  /\ parN = 3
  /\ Failed(1)
  /\ parLast = 3 /\ Succeeded(3) /\ "k1" \in DOMAIN parOut[3].writes
  /\ parMerged.data["k1"] = 3

\* The successful branches whose returned context holds key k.
Producers(k) ==
  { i \in 1..parN : Succeeded(i) /\ k \in DOMAIN ResultData(parIn, parOut[i]) }

\* The result of folding the branch outcomes in declaration order.
DeclarationOrderFold == MergeFrom(MergeStart(parIn), parIn, parOut, 1, parN)

\* C13: the context run returns is fixed by the declaration order of the
\* agents and the branch outcomes, whichever branch ended last: it is the
\* fold of the outcomes in declaration order; under every key it holds the
\* value of the latest declared successful branch whose context holds the
\* key, else the input's; and it has an errors map exactly when the input
\* had one or some branch failed or returned one.
C13_MergedIndependentOfCompletionOrder ==
  ParReturned =>
    /\ parMerged.data = DeclarationOrderFold.data
    /\ parMerged.hasErrors = DeclarationOrderFold.hasErrors
    /\ parMerged.errors = DeclarationOrderFold.errors
    /\ \A k \in DataKeys :
         IF Producers(k) # {}
         THEN /\ k \in DOMAIN parMerged.data
              /\ parMerged.data[k] =
                   ResultData(parIn, parOut[Latest(Producers(k))])[k]
         ELSE /\ k \in DOMAIN parMerged.data <=> k \in DOMAIN parIn.data
              /\ k \in DOMAIN parIn.data =>
                   parMerged.data[k] = parIn.data[k]
    /\ parMerged.hasErrors <=>
         \/ parIn.hasErrors
         \/ \E i \in 1..parN : Failed(i)
         \/ \E i \in 1..parN : Succeeded(i) /\ parOut[i].errors = "fresh"

\* C13 witness: two successful branches wrote the same key, the one
\* declared first ended last, and the merged value is the second's.
C13_Witness ==
  /\ ParReturned
  /\ parN >= 2
  /\ Succeeded(1) /\ "k1" \in DOMAIN parOut[1].writes
  /\ Succeeded(2) /\ "k1" \in DOMAIN parOut[2].writes
  /\ \A i \in 3..parN : Failed(i)
  /\ parLast = 1
  /\ parMerged.data["k1"] = 2

\* C39: if a successful branch changes the value of a key that was already
\* present in the input context, and no later-declared successful branch
\* writes that key, then the merged context holds the changed value (a later
\* branch that merely carried the key unchanged in its snapshot does not
\* overwrite it).
C39_ChangedValueSurvivesCarriers ==
  ParReturned =>
    \A k \in DOMAIN parIn.data :
      \A i \in Writers(k) :
        (/\ parOut[i].writes[k] # parIn.data[k]
         /\ \A j \in Writers(k) : j <= i)
        => parMerged.data[k] = parOut[i].writes[k]

\* C32: running a combinator never changes the context the caller passed
\* in: after run returns or fails, the caller's input context holds the same
\* keys and the same values as before the call, whatever the sub-agents
\* wrote. Here for ParallelAgent: the caller's context after the run,
\* parInAfter, is the input parIn.
C32_CallerContextUnchanged ==
  parPc \in {"returned", "raised"} => parInAfter = parIn

\* ==================================== CLAIMS: PARALLEL AGENT, SNAPSHOTS

\* C12: each branch works on an independent snapshot of the input: whatever
\* a branch reads from its context, under a key or in the value stored
\* under a key, is the input's content changed by its own writes only.
C12_BranchesSeeOnlyOwnMutations ==
  \A i \in Branches :
    \A seen \in snapSeen[i] :
      /\ seen.top \in {InputValue, i}
      /\ seen.obj \subseteq {i}

\* ============================================ CLAIMS: SEQUENTIAL AGENT

\* C14: SequentialAgent.run folds the agents' runs over the initial context
\* in list order: the first agent is given the content of the initial
\* context, agent i+1 exactly the output of agent i, and run returns the
\* last agent's output (the initial context's content for an empty list).
C14_SequentialIsFold ==
  /\ \A j \in 1..Len(seqGiven) :
       seqGiven[j] = IF j = 1 THEN seqIn ELSE seqOut[j - 1].ctx
  /\ seqPc = "returned" =>
       /\ Len(seqOut) = seqN
       /\ seqResult.returned
       /\ seqResult.ctx = IF seqN = 0 THEN seqIn ELSE seqOut[seqN].ctx

\* C14 witness: run returned after three agents that each changed the
\* context, the last one's output being the result.
C14_Witness ==
  /\ seqPc = "returned"
  /\ seqN = 3
  /\ seqOut[1].ctx # seqIn
  /\ seqOut[2].ctx # seqOut[1].ctx
  /\ seqOut[3].ctx # seqOut[2].ctx
  /\ seqResult.ctx = seqOut[3].ctx

\* C15: if agent i of a SequentialAgent fails, no agent after i is run, the
\* error propagates to run's caller and the caller receives no context.
C15_FailureAbortsSequence ==
  \A i \in 1..Len(seqOut) :
    seqOut[i].raised =>
      /\ Len(seqOut) = i
      /\ Len(seqGiven) = i
      /\ seqPc = "raised"
      /\ seqResult = NoResult

\* C15 witness: the second of three agents raised after the first had
\* changed the context.
C15_Witness ==
  /\ seqPc = "raised"
  /\ seqN = 3
  /\ Len(seqOut) = 2
  /\ seqOut[1].ctx # seqIn
  /\ seqOut[2].raised

\* ============================================= CLAIMS: ESCALATION LOOP

\* The place in the order of the tiers of the level a context holds; a
\* context without one counts as L1_AUTO, as the verifier reads it.
LevelRank(ctx) == LevelIndex(Get(ctx, "escalation_level", "L1_AUTO"))

\* C16: within one run of the escalation loop the escalation_level of the
\* context never decreases in the order L1_AUTO < L2_ONCALL < L3_SENIOR <
\* L4_MANAGEMENT: no step of the run takes it to a lower tier.
C16_EscalationLevelNeverDecreases ==
  [][LevelRank(escCtx') >= LevelRank(escCtx)]_vars

\* C16 witness: four verifications in a row failed, from a context without a
\* level up to L4_MANAGEMENT, where the level stayed.
C16_Witness ==
  /\ Len(escChecks) = 4
  /\ \A i \in 1..4 : ~escChecks[i].healthy
  /\ "escalation_level" \notin DOMAIN escChecks[1].before
  /\ Get(escChecks[4].before, "escalation_level", "absent") = "L4_MANAGEMENT"
  /\ Get(escCtx, "escalation_level", "absent") = "L4_MANAGEMENT"

\* C18: an unhealthy verification advances escalation_level by exactly one
\* tier (it stays at L4_MANAGEMENT), sets needs_escalation and leaves
\* loop_complete false; a healthy one sets loop_complete, clears
\* needs_escalation and leaves escalation_level as it was.
C18_VerifierStep ==
  \A i \in 1..Len(escChecks) :
    LET c == escChecks[i]
    IN IF c.healthy
       THEN /\ c.after["loop_complete"] = TRUE
            /\ c.after["needs_escalation"] = FALSE
            /\ Get(c.after, "escalation_level", "absent")
                 = Get(c.before, "escalation_level", "absent")
       ELSE /\ LevelRank(c.after) =
                 IF LevelRank(c.before) = Len(_ESCALATION_ORDER)
                 THEN Len(_ESCALATION_ORDER)
                 ELSE LevelRank(c.before) + 1
            /\ "escalation_level" \in DOMAIN c.after
            /\ c.after["needs_escalation"] = TRUE
            /\ c.after["loop_complete"] = FALSE

\* C18 witness: an unhealthy verification at L3_SENIOR, one at
\* L4_MANAGEMENT after it, and then a healthy one.
C18_Witness ==
  /\ Len(escChecks) = 3
  /\ ~escChecks[1].healthy
  /\ Get(escChecks[1].before, "escalation_level", "absent") = "L3_SENIOR"
  /\ ~escChecks[2].healthy
  /\ Get(escChecks[2].before, "escalation_level", "absent") = "L4_MANAGEMENT"
  /\ escChecks[3].healthy
  /\ Get(escChecks[3].before, "needs_escalation", FALSE) = TRUE

\* The candidate list the claims give for an iteration number.
ClaimedCandidates(iteration) ==
  CASE iteration = 1 -> LowRisk
    [] iteration = 2 -> MediumRisk
    [] OTHER -> HighRisk

\* C19: the remediator's candidate list is keyed by the iteration number:
\* the low-risk list at iteration 1, the medium list at iteration 2 and the
\* high-risk list at every iteration number 3 or greater.
C19_CandidatesByIteration ==
  \A i \in 1..Len(escActions) :
    /\ escActions[i].iteration >= 1
    /\ escActions[i].candidates = ClaimedCandidates(escActions[i].iteration)

\* C20: for every set of symptoms the action the remediator selects on an
\* iteration belongs to that iteration's candidate set.
C20_SelectedActionAmongCandidates ==
  \A i \in 1..Len(escActions) :
    escActions[i].action \in Range(ClaimedCandidates(escActions[i].iteration))

\* The candidates whose runbook declares one of the symptoms applicable.
ApplicableCandidates(candidates, symptoms) ==
  { a \in Range(candidates) :
      \E i \in 1..Len(RUNBOOKS) :
        RUNBOOKS[i].action = a /\ RUNBOOKS[i].symptoms \cap symptoms # {} }

\* The action the overrides give, else the first candidate of the iteration.
OverrideOrFirst(candidates, symptoms, iteration) ==
  IF {"certificate_expiry", "tls_handshake_failure"} \cap symptoms # {}
  THEN "rotate_certs"
  ELSE IF "config_drift" \in symptoms /\ iteration >= 2
  THEN "rollback_deploy"
  ELSE candidates[1]

\* C21: whenever the candidate list of the iteration holds an action whose
\* runbook declares applicability to one of the observed symptoms, the
\* remediator selects such an action; only when no candidate is applicable
\* does it use the overrides, and otherwise the first candidate.
C21_ApplicableCandidatePreferred ==
  \A i \in DOMAIN escActions :
    LET r == escActions[i]
        applicable == ApplicableCandidates(r.candidates, r.symptoms)
    IN IF applicable # {}
       THEN r.action \in applicable
       ELSE r.action = OverrideOrFirst(r.candidates, r.symptoms, r.iteration)

\* The action history of the loop's context.
ActionHistory(ctx) == Get(ctx, "remediation_actions", <<>>)

\* The number of passes of the loop whose remediator has run.
PassesRemediated ==
  IF escPc = "start" THEN 0
  ELSE IF escPc = "remediate" THEN Get(escCtx, "loop_iteration", 0) - 1
  ELSE Get(escCtx, "loop_iteration", 0)

\* C22: each iteration of the escalation loop appends exactly one new
\* RemediationAction to the action history and leaves the earlier records
\* unchanged: after k iterations started from a context without actions the
\* history holds exactly k records in iteration order and last_remediation
\* is the k-th.
C22_OneActionPerIteration ==
  /\ [](LET acts == ActionHistory(escCtx)
            k == PassesRemediated
        IN /\ Len(acts) = k
           /\ \A i \in 1..Len(acts) : acts[i].attempt = i
           /\ k > 0 => Get(escCtx, "last_remediation", "none") = acts[k])
  /\ [][\A i \in 1..Len(ActionHistory(escCtx)) :
          /\ i <= Len(ActionHistory(escCtx'))
          /\ ActionHistory(escCtx')[i] = ActionHistory(escCtx)[i]]_vars

C22_Witness ==
  /\ escPc = "done"
  /\ Len(ActionHistory(escCtx)) = 3
  /\ Get(escCtx, "loop_exhausted", FALSE)

\* C40: the remediator's action selection is deterministic: for the same set
\* of observed symptoms and the same iteration number, _select_action
\* always returns the same action, whatever order the symptoms are
\* enumerated in. Here: the action the remediator has just selected is the
\* one every enumeration order of its symptoms gives for that iteration.
C40_SelectionIndependentOfOrder ==
  escPc = "verify" =>
    LET r == escActions[Len(escActions)]
    IN \A order \in SymptomOrders(r.symptoms) :
         _select_action(order, r.iteration) = r.action

\* C34: loop iterations execute strictly in increasing order and never
\* overlap: the remediator and the verifier observe the loop_iteration
\* values 1, 2, ..., k with no gap or repeat, within an iteration the
\* remediator has returned before the verifier starts (the verifier is
\* given the context with the action of that iteration), and iteration
\* i + 1 starts only after the verifier of iteration i has returned.
C34_IterationsInOrderNoOverlap ==
  /\ \A i \in 1..Len(escActions) : escActions[i].iteration = i
  /\ \A i \in 1..Len(escChecks) :
       /\ escChecks[i].before["loop_iteration"] = i
       /\ escChecks[i].before["last_remediation"].attempt = i
       /\ Len(ActionHistory(escChecks[i].before)) = i
  /\ Len(escChecks) <= Len(escActions)
  /\ Len(escActions) <= Len(escChecks) + 1
  /\ Len(escActions) > Len(escChecks) <=> escPc = "verify"

\* C34 witness: the loop returned after MaxEscM iterations.
C34_Witness ==
  /\ escPc = "done"
  /\ Len(escActions) = MaxEscM
  /\ Len(escChecks) = MaxEscM
  /\ escChecks[MaxEscM].before["loop_iteration"] = MaxEscM

\* ============================================ CLAIMS: INCIDENT SESSION

\* C17: the escalation level recorded for an incident session never
\* decreases over the incident's lifetime, whatever verification failures,
\* manual escalate requests and write-back of the pipeline's final level
\* happen.
C17_SessionLevelNeverDecreases ==
  [][LevelIndex(sessLevel') >= LevelIndex(sessLevel)]_vars

\* ======================================= CLAIMS: PIPELINE ORCHESTRATOR

\* The types of the events the run has emitted, in order.
RunEvents ==
  LET ev == SelectSeq(runLog, LAMBDA e : e.kind = "event")
  IN [i \in 1..Len(ev) |-> ev[i].name]

\* The places of the log that hold the entry e.
Places(e) == { i \in 1..Len(runLog) : runLog[i] = e }

\* C23: every run of the orchestrator that is not cancelled ends in exactly
\* one of resolved, human-takeover or failed: it emits exactly one terminal
\* event (resolved, human_takeover or error), that event is the last event
\* the run emits, and the run has returned when it is emitted.
C23_ExactlyOneTerminalEventLast ==
  LET ev == RunEvents
      terminal == { i \in 1..Len(ev) : ev[i] \in _TERMINAL_EVENTS }
  IN /\ terminal \subseteq {Len(ev)}
     /\ terminal # {} => runPc = "returned"
     /\ runPc = "returned" => terminal = {Len(ev)} /\ Len(ev) > 0

C23_Witness ==
  /\ runPc = "returned"
  /\ RunEvents[Len(RunEvents)] = EVENT_RESOLVED
  /\ Get(runCtx, "loop_iteration", 0) >= 2

\* The phase a log entry belongs to: 1 for triage, 2 for the diagnostics,
\* 3 for the escalation loop and what follows it, 0 for the error event.
PhaseOf(e) ==
  CASE e.name \in {EVENT_RECEIVED, EVENT_ENRICHING, EVENT_ENRICHED,
                   EVENT_TRIAGING, EVENT_TRIAGED,
                   "sequential_triage_pipeline"} -> 1
    [] e.name \in {EVENT_DIAGNOSING_LOGS, EVENT_DIAGNOSING_METRICS,
                   EVENT_DIAGNOSING_CONFIG, EVENT_DIAGNOSTICS_COMPLETE,
                   "parallel_diagnostics"}
         \cup Range(DiagnosticAgents) -> 2
    [] e.name = EVENT_ERROR -> 0
    [] OTHER -> 3

\* C24: an error raised in a pipeline phase is caught once at the
\* orchestrator boundary: the run emits one terminal error event, records
\* the error on the returned context, runs none of the remaining phases,
\* emits none of their events and does not retry the failed phase.
C24_PhaseErrorCaughtOnce ==
  \A i \in 1..Len(runLog) :
    runLog[i].kind = "raise" =>
      /\ Len(runLog) = i + 1
      /\ runLog[i + 1] = Emitted(EVENT_ERROR)
      /\ Cardinality(Places(Emitted(EVENT_ERROR))) = 1
      /\ runPc = "returned"
      /\ Get(runCtx, "error", "none") = PhaseError
      /\ Cardinality(Places(Ran(runLog[i].name))) <= 1
      /\ \A j \in 1..Len(runLog) : PhaseOf(runLog[j]) <= PhaseOf(runLog[i])
      /\ RunEvents[Len(RunEvents)] = EVENT_ERROR
      /\ \A j \in 1..(Len(RunEvents) - 1) :
           RunEvents[j] \notin {EVENT_REMEDIATION_ATTEMPTED, EVENT_VERIFYING,
                                EVENT_VERIFICATION_RESULT, EVENT_ESCALATING}
                               \cup _TERMINAL_EVENTS

C24_Witness ==
  /\ runPc = "returned"
  /\ Raised("escalation_loop") \in Range(runLog)
  /\ Cardinality(Places(Ran("remediator"))) = 2
  /\ Get(runCtx, "error", "none") = PhaseError

\* C25: the terminal event follows the loop outcome: when the loop returns
\* with the completion flag true the run emits a resolved event, no
\* escalating and no human_takeover event, and attaches a report; when the
\* loop returns exhausted the run emits an escalating event followed by a
\* human_takeover event, no resolved event, and attaches a partial report.
C25_TerminalEventFollowsLoopOutcome ==
  LET ev == RunEvents
      At(t) == { i \in 1..Len(ev) : ev[i] = t }
  IN runPc = "returned" /\ "error" \notin DOMAIN runCtx =>
       IF Get(runCtx, "loop_complete", FALSE)
       THEN /\ Cardinality(At(EVENT_RESOLVED)) = 1
            /\ At(EVENT_ESCALATING) = {}
            /\ At(EVENT_HUMAN_TAKEOVER) = {}
            /\ Get(runCtx, "report", "none") = "final"
       ELSE /\ Get(runCtx, "loop_exhausted", FALSE)
            /\ At(EVENT_ESCALATING) = {Len(ev) - 1}
            /\ At(EVENT_HUMAN_TAKEOVER) = {Len(ev)}
            /\ At(EVENT_RESOLVED) = {}
            /\ Get(runCtx, "report", "none") = "partial"

C25_Witness ==
  /\ runPc = "returned"
  /\ Get(runCtx, "loop_exhausted", FALSE)
  /\ Get(runCtx, "report", "none") = "partial"
  /\ Len(Get(runCtx, "remediation_actions", <<>>)) >= 2

\* C26: in the diagnostics phase the three phase-start events are emitted
\* before any diagnostic branch runs and exactly one diagnostics_complete
\* event after all branches have finished; a failed diagnostic branch is
\* not fatal to the run: diagnostics_complete is still emitted and the
\* escalation loop still runs.
C26_DiagnosticsPhase ==
  LET starts == {EVENT_DIAGNOSING_LOGS, EVENT_DIAGNOSING_METRICS,
                 EVENT_DIAGNOSING_CONFIG}
      runs == { i \in 1..Len(runLog) :
                  runLog[i].kind = "run"
                  /\ runLog[i].name \in Range(DiagnosticAgents) }
      complete == Places(Emitted(EVENT_DIAGNOSTICS_COMPLETE))
      ended == \A b \in DOMAIN runDiag : runDiag[b] # "pending"
  IN /\ \A i \in runs : \A t \in starts :
          \E j \in Places(Emitted(t)) : j < i
     /\ \A t \in starts : Cardinality(Places(Emitted(t))) <= 1
     /\ Cardinality(complete) <= 1
     /\ \A c \in complete :
          /\ ended
          /\ Cardinality(runs) = Len(DiagnosticAgents)
          /\ \A i \in runs : i < c
     /\ ended /\ runPc # "diagnostics" =>
          /\ Cardinality(complete) = 1
          /\ Ran("escalation_loop") \in Range(runLog)
          /\ \A i \in Places(Ran("escalation_loop")) : \A c \in complete : c < i

C26_Witness ==
  /\ runPc = "returned"
  /\ runDiag["log_analyzer"] = "failed"
  /\ runDiag["config_auditor"] = "ok"
  /\ "log_analyzer" \in Get(runCtx, "errors", {})
  /\ Ran("verifier") \in Range(runLog)
  /\ RunEvents[Len(RunEvents)] = EVENT_HUMAN_TAKEOVER

\* ============================ CLAIMS: MANUAL RESOLVE AND TAKEOVER, STREAM

\* C27: when a pipeline run is cancelled by a manual resolve or takeover,
\* the session's event stream is closed and no subscriber of the session
\* hangs forever: every subscriber, whether it subscribed before or after
\* the cancellation, eventually has its sequence end.
C27_CancelledRunEndsEverySubscriber ==
  \A s \in Subs :
    [](pipePc = "cancelled" /\ subPc[s] \in {"replay", "get", "live"}
         => <>(subPc[s] = "done"))

\* =========================== CLAIMS: THE HANDLERS OF A SESSION AND ITS TASK

\* The parts of the session record and of the task a request may touch.
SessionRecord == <<sessState, sessLevel, pipePc, pipeLevel, pipeIter>>

\* C33: a rejected request has no effect: a session-scoped request for an
\* unknown session id is answered 404, and a resolve or takeover request on
\* a session whose state is already RESOLVED is answered 400; in both cases
\* no event is emitted, no pipeline task is cancelled and no session record
\* changes.
C33_RejectedRequestHasNoEffect ==
  [][sessRequests' # sessRequests =>
       /\ apiReply'.session_id # SessionId => apiReply'.status = 404
       /\ /\ apiReply'.session_id = SessionId
          /\ apiReply'.request \in {"resolve", "takeover"}
          /\ sessState = RESOLVED
          => apiReply'.status = 400
       /\ apiReply'.status \in {400, 404} =>
            /\ history' = history
            /\ SessionRecord' = SessionRecord]_vars

\* C33 witness: the pipeline resolved the incident and emitted its events;
\* a takeover request for the session has been answered 400.
C33_Witness ==
  /\ apiReply = Reply("takeover", SessionId, 400)
  /\ sessState = RESOLVED
  /\ pipePc = "finished"
  /\ history # <<>>
  /\ history[Len(history)].type = EVENT_RESOLVED

\* The state that agrees with a terminal event.
StateOfEvent(event_type) ==
  CASE event_type = EVENT_RESOLVED -> RESOLVED
    [] event_type = EVENT_HUMAN_TAKEOVER -> HUMAN_TAKEOVER
    [] event_type = EVENT_ERROR -> FAILED
    [] OTHER -> "none"

\* C36: after a pipeline run returns without having been cancelled, the
\* state written to the incident session agrees with the terminal event the
\* run emitted: RESOLVED after a resolved event, HUMAN_TAKEOVER after a
\* human_takeover event, and FAILED after an error event.
C36_FinalStateAgreesWithTerminalEvent ==
  [][pipePc # "finished" /\ pipePc' = "finished" =>
       sessState' = StateOfEvent(history'[Len(history')].type)]_vars

\* C37: for every sequence of pipeline execution and manual escalate,
\* resolve and takeover requests on one session, at most one terminal-type
\* event is ever appended to the session's event history, and no event is
\* appended after it.
C37_OneTerminalEventAndNothingAfter ==
  \A i \in 1..Len(history) :
    history[i].type \in _TERMINAL_EVENTS => i = Len(history)

\* C38: RESOLVED is an absorbing session state: once the state is RESOLVED
\* (by the pipeline or by a manual resolve that cancels a running
\* pipeline), no later escalate, resolve or takeover request and no later
\* completion or failure of the pipeline task changes it, and the cancelled
\* pipeline emits no further event (a cancelled task stays cancelled, and
\* every event after the cancellation is the event of a request).
C38_ResolvedIsAbsorbing ==
  [][/\ sessState = RESOLVED => sessState' = RESOLVED
     /\ pipePc = "cancelled" =>
          /\ pipePc' = "cancelled"
          /\ history' # history => sessRequests' # sessRequests]_vars

\* C38 witness: a manual resolve cancelled the running pipeline; an
\* escalate request that came later was refused and the state is still
\* RESOLVED.
C38_Witness ==
  /\ sessState = RESOLVED
  /\ pipePc = "cancelled"
  /\ apiReply = Reply("escalate", SessionId, 400)
  /\ history # <<>>
  /\ history[Len(history)].type = EVENT_RESOLVED

=============================================================================
